---- MODULE Spec2Model ----
(***************************************************************************)
(* Approval ledger, execution safety gate and the routes that drive them   *)
(* in the OCW Assistant sidecar.                                           *)
(*                                                                         *)
(* Text values are sequences of one-character strings, so that trim, the   *)
(* gate's regular expressions and the date parser are computed on the      *)
(* characters.  JSON values are tagged records (undefined / string /       *)
(* array).  The SQLite tables are sequences in insertion order; an id is   *)
(* the row's position in its table.                                        *)
(***************************************************************************)
EXTENDS Integers, Sequences, FiniteSets, TLC

VARIABLES
    approvalActions,   \* table approval_actions
    auditLogs,         \* the rows the last request appended to table audit_logs
    calendars,         \* table calendars (rows with included = '1')
    calendarEvents,    \* table calendar_events
    draftEmails,       \* table draft_emails
    localDrafts,       \* drafts materialized by the gate for email.send
    gmailSends,        \* number of Gmail send requests that were accepted
    clock,             \* Date.now(), in days
    last,              \* the request handled last and its response
    phase,             \* per action id: where it is in reject-stale, reaffirm, execute
    inflight,          \* per connection: the request being handled, and where it stands
    oauth              \* the pending PKCE sessions, the states issued and exchanged

vars == <<approvalActions, auditLogs, calendars, calendarEvents, draftEmails,
          localDrafts, gmailSends, clock, last, phase, inflight, oauth>>

----------------------------------------------------------------------------
(* Bounds of the model *)

MaxActions == 1
MaxClock == 16
MaxInFlight == 2

(* Program constant: the gate's staleness window, 7 * 24 * 60 * 60 * 1000 ms *)
StaleAfterDays == 7

----------------------------------------------------------------------------
(* Values *)

NULL == "null"

Undef == [t |-> "undefined"]
Str(s) == [t |-> "string", v |-> s]
Arr(a) == [t |-> "array", v |-> a]

IsString(x) == x.t = "string"

Digits == {"0", "1", "2", "3", "4", "5", "6", "7", "8", "9"}

IsDigit(c) == c \in Digits

DigitVal(c) ==
    CASE c = "0" -> 0 [] c = "1" -> 1 [] c = "2" -> 2 [] c = "3" -> 3
      [] c = "4" -> 4 [] c = "5" -> 5 [] c = "6" -> 6 [] c = "7" -> 7
      [] c = "8" -> 8 [] c = "9" -> 9

RECURSIVE NumVal(_)
NumVal(s) == IF s = <<>> THEN 0
             ELSE 10 * NumVal(SubSeq(s, 1, Len(s) - 1)) + DigitVal(s[Len(s)])

IsSpace(c) == c = " "

RECURSIVE TrimStart(_)
TrimStart(s) == IF s # <<>> /\ IsSpace(Head(s)) THEN TrimStart(Tail(s)) ELSE s

RECURSIVE TrimEnd(_)
TrimEnd(s) == IF s # <<>> /\ IsSpace(s[Len(s)])
              THEN TrimEnd(SubSeq(s, 1, Len(s) - 1)) ELSE s

Trim(s) == TrimEnd(TrimStart(s))

(* a ?? b *)
Coalesce(a, b) == IF a # NULL THEN a ELSE b

(* a || b on strings and null: null and '' are falsy *)
OrElse(a, b) == IF a # NULL /\ a # "" THEN a ELSE b

Err(msg, detail) == <<msg>> \o detail

NoError == <<>>

----------------------------------------------------------------------------
(* The database, as one record the service functions pass along.  A        *)
(* service function returns [ok, error, db, value]: on a throw ok is FALSE, *)
(* error is the message and db holds what had been written before the      *)
(* throw (no function of the sidecar opens a transaction).                 *)

Db == [actions |-> approvalActions, audit |-> <<>>, calendars |-> calendars,
       events |-> calendarEvents, drafts |-> draftEmails,
       localDrafts |-> localDrafts, sends |-> gmailSends]

(* a select that finds no row; ids count from 1, so a null reference to a row is id 0 *)
NoRow == [id |-> 0]

NoRef == NoRow.id

(* a connection with no request on it *)
Idle == [pc |-> "idle", op |-> "none", input |-> NoRow, current |-> NoRow]

Return(db, value) == [ok |-> TRUE, error |-> NoError, db |-> db, value |-> value]

Throw(db, error) == [ok |-> FALSE, error |-> error, db |-> db, value |-> NoRow]

NoDetails == [actionType |-> NULL, from |-> NULL, to |-> NULL,
              policyIssues |-> <<>>, ref |-> NoRef]

(* writeAuditLog: one row appended to audit_logs (id and timestamp left out) *)
writeAuditLog(db, actionType, targetType, targetRef, status, details, errorDetails) ==
    [db EXCEPT !.audit = Append(@, [actionType |-> actionType,
                                    targetType |-> targetType,
                                    targetRef |-> targetRef,
                                    status |-> status,
                                    details |-> details,
                                    errorDetails |-> Coalesce(errorDetails, NULL)])]

(* TERMINAL, with failed forgotten *)
TERMINAL_WithoutFailed == {"executed", "cancelled"}

TERMINAL == {"executed", "failed", "cancelled"}

(* getAction, reading the row without the body of its payload *)
getAction_WithoutBody(db, actionId) ==
    IF actionId \in 1..Len(db.actions)
    THEN [db.actions[actionId] EXCEPT !.payload.body = Undef] ELSE NoRow

(* getAction: the row with that id, or null *)
getAction(db, actionId) ==
    IF actionId \in 1..Len(db.actions) THEN db.actions[actionId] ELSE NoRow

(* prepareAction: inserts a row in status prepared and audits it *)
prepareAction(db, now, input) ==
    LET record == [id |-> Len(db.actions) + 1,
                   actionType |-> input.actionType,
                   targetType |-> input.targetType,
                   targetRef |-> input.targetRef,
                   payload |-> input.payload,
                   status |-> "prepared",
                   requestedBy |-> input.requestedBy,
                   approvedBy |-> NULL,
                   errorDetails |-> NULL,
                   createdAt |-> now,
                   updatedAt |-> now]
        db1 == [db EXCEPT !.actions = Append(@, record)]
        db2 == writeAuditLog(db1, "approval_prepared", input.targetType, record.id,
                             "prepared",
                             [NoDetails EXCEPT !.actionType = input.actionType], NULL)
    IN Return(db2, record)

(* allowed, with the edge prepared -> executed let through *)
allowed_SkipsApproval(status, nextStatus) ==
    \/ status = "prepared" /\ nextStatus \in {"approved", "executed", "cancelled", "failed"}
    \/ status = "approved" /\ nextStatus \in {"executed", "failed", "cancelled"}

(* allowed, with an approved action approved again *)
allowed_Reapproves(status, nextStatus) ==
    \/ status = "prepared" /\ nextStatus \in {"approved", "cancelled", "failed"}
    \/ status = "approved" /\ nextStatus \in {"approved", "executed", "failed", "cancelled"}

(* the edge test of transitionAction *)
allowed(status, nextStatus) ==
    \/ status = "prepared" /\ nextStatus \in {"approved", "cancelled", "failed"}
    \/ status = "approved" /\ nextStatus \in {"executed", "failed", "cancelled"}

(* transitionAction, leaving an audit row for a request off the edges *)
transitionAction_AuditsRejection(db, now, input) ==
    LET current == getAction(db, input.actionId) IN
    IF current.id = NoRef THEN Throw(db, Err("action_not_found", <<>>))
    ELSE IF current.status \in TERMINAL THEN Throw(db, Err("action_terminal", <<>>))
    ELSE IF ~allowed(current.status, input.nextStatus)
         THEN Throw(writeAuditLog(db, "approval_transition", current.targetType,
                                  current.id, "rejected",
                                  [NoDetails EXCEPT !.from = current.status,
                                                    !.to = input.nextStatus], NULL),
                    Err("invalid_transition", <<current.status, input.nextStatus>>))
    ELSE
      LET next == [current EXCEPT
                     !.status = input.nextStatus,
                     !.approvedBy = Coalesce(input.approvedBy, Coalesce(current.approvedBy, NULL)),
                     !.errorDetails = Coalesce(input.errorDetails, NULL),
                     !.updatedAt = now]
          db1 == [db EXCEPT !.actions[input.actionId] = next]
          db2 == writeAuditLog(db1, "approval_transition", next.targetType, next.id,
                               input.nextStatus,
                               [NoDetails EXCEPT !.from = current.status,
                                                 !.to = input.nextStatus],
                               input.errorDetails)
      IN Return(db2, next)

(* transitionAction *)
transitionAction(db, now, input) ==
    LET current == getAction(db, input.actionId) IN
    IF current.id = NoRef THEN Throw(db, Err("action_not_found", <<>>))
    ELSE IF current.status \in TERMINAL THEN Throw(db, Err("action_terminal", <<>>))
    ELSE IF ~allowed(current.status, input.nextStatus)
         THEN Throw(db, Err("invalid_transition", <<current.status, input.nextStatus>>))
    ELSE
      LET next == [current EXCEPT
                     !.status = input.nextStatus,
                     !.approvedBy = Coalesce(input.approvedBy, Coalesce(current.approvedBy, NULL)),
                     !.errorDetails = Coalesce(input.errorDetails, NULL),
                     !.updatedAt = now]
          db1 == [db EXCEPT !.actions[input.actionId] = next]
          db2 == writeAuditLog(db1, "approval_transition", next.targetType, next.id,
                               input.nextStatus,
                               [NoDetails EXCEPT !.from = current.status,
                                                 !.to = input.nextStatus],
                               input.errorDetails)
      IN Return(db2, next)

(* reaffirmAction *)
(* reaffirmAction, accepting every status that is not approved only by name: *)
(* prepared actions are re-stamped too                                     *)
reaffirmAction_AlsoPrepared(db, now, input) ==
    LET current == getAction(db, input.actionId) IN
    IF current.id = NoRef THEN Throw(db, Err("action_not_found", <<>>))
    ELSE IF current.status \notin {"prepared", "approved"}
         THEN Throw(db, Err("action_not_approved", <<>>))
    ELSE
      LET next == [current EXCEPT
                     !.approvedBy = Coalesce(input.approvedBy, Coalesce(current.approvedBy, NULL)),
                     !.updatedAt = now]
          db1 == [db EXCEPT !.actions[input.actionId] = next]
          db2 == writeAuditLog(db1, "approval_reaffirmed", next.targetType, next.id,
                               next.status,
                               [NoDetails EXCEPT !.actionType = next.actionType], NULL)
      IN Return(db2, next)

reaffirmAction(db, now, input) ==
    LET current == getAction(db, input.actionId) IN
    IF current.id = NoRef THEN Throw(db, Err("action_not_found", <<>>))
    ELSE IF current.status # "approved" THEN Throw(db, Err("action_not_approved", <<>>))
    ELSE
      LET next == [current EXCEPT
                     !.approvedBy = Coalesce(input.approvedBy, Coalesce(current.approvedBy, NULL)),
                     !.updatedAt = now]
          db1 == [db EXCEPT !.actions[input.actionId] = next]
          db2 == writeAuditLog(db1, "approval_reaffirmed", next.targetType, next.id,
                               next.status,
                               [NoDetails EXCEPT !.actionType = next.actionType], NULL)
      IN Return(db2, next)

----------------------------------------------------------------------------
(* Execution safety gate *)

(* isStringArray *)
isStringArray(value) ==
    value.t = "array" /\ \A i \in 1..Len(value.v) : value.v[i].t = "string"

(* /^\d{4}-\d{2}-\d{2}$/ *)
DatePattern(s) ==
    /\ Len(s) = 10
    /\ \A i \in {1, 2, 3, 4, 6, 7, 9, 10} : IsDigit(s[i])
    /\ s[5] = "-" /\ s[8] = "-"

(* /^\d{1,2}:\d{2}$/ *)
TimePattern(s) ==
    \/ Len(s) = 4 /\ IsDigit(s[1]) /\ s[2] = ":" /\ IsDigit(s[3]) /\ IsDigit(s[4])
    \/ Len(s) = 5 /\ IsDigit(s[1]) /\ IsDigit(s[2]) /\ s[3] = ":"
                  /\ IsDigit(s[4]) /\ IsDigit(s[5])

(* typeof x !== 'string' || !x.trim() *)
BlankString(x) == ~IsString(x) \/ Trim(x.v) = <<>>

IssueIf(cond, code) == IF cond THEN <<code>> ELSE <<>>

(* IsStale, stale from the seventh day on *)
IsStale_FromSevenDays(action, now) == now - action.updatedAt >= StaleAfterDays

(* the staleness test: ageMs > 7 * 24 * 60 * 60 * 1000 (updatedAt is always  *)
(* a timestamp the ledger wrote, so ageMs is finite)                        *)
IsStale(action, now) == now - action.updatedAt > StaleAfterDays

(* PayloadIssues, giving up at the first check that fails *)
PayloadIssues_FirstOnly(action) ==
    LET p == action.payload
        all == (IF action.actionType = "email.send"
                THEN IssueIf(~isStringArray(p.to) \/ Len(p.to.v) = 0, "email_to_missing")
                     \o IssueIf(BlankString(p.subject), "email_subject_missing")
                     \o IssueIf(BlankString(p.body), "email_body_missing")
                ELSE <<>>)
               \o
               (IF action.actionType = "calendar.event.create"
                THEN IssueIf(BlankString(p.eventTitle), "event_title_missing")
                     \o IssueIf(~IsString(p.startDate) \/ ~DatePattern(p.startDate.v),
                                "event_start_date_invalid")
                     \o IssueIf(~IsString(p.startTime) \/ ~TimePattern(p.startTime.v),
                                "event_start_time_invalid")
                     \o IssueIf(~IsString(p.endTime) \/ ~TimePattern(p.endTime.v),
                                "event_end_time_invalid")
                ELSE <<>>)
    IN SubSeq(all, 1, 1)

(* the payload checks of validateApprovedActionExecution *)
PayloadIssues(action) ==
    LET p == action.payload IN
    (IF action.actionType = "email.send"
     THEN IssueIf(~isStringArray(p.to) \/ Len(p.to.v) = 0, "email_to_missing")
          \o IssueIf(BlankString(p.subject), "email_subject_missing")
          \o IssueIf(BlankString(p.body), "email_body_missing")
     ELSE <<>>)
    \o
    (IF action.actionType = "calendar.event.create"
     THEN IssueIf(BlankString(p.eventTitle), "event_title_missing")
          \o IssueIf(~IsString(p.startDate) \/ ~DatePattern(p.startDate.v),
                     "event_start_date_invalid")
          \o IssueIf(~IsString(p.startTime) \/ ~TimePattern(p.startTime.v),
                     "event_start_time_invalid")
          \o IssueIf(~IsString(p.endTime) \/ ~TimePattern(p.endTime.v),
                     "event_end_time_invalid")
     ELSE <<>>)

(* validateApprovedActionExecution, without the payload checks *)
validateApprovedActionExecution_StaleOnly(action, now) ==
    IF action.id = NoRef THEN <<"action_not_found">>
    ELSE IssueIf(IsStale(action, now), "approval_stale_reapproval_required")

(* validateApprovedActionExecution *)
validateApprovedActionExecution(action, now) ==
    IF action.id = NoRef THEN <<"action_not_found">>
    ELSE IssueIf(IsStale(action, now), "approval_stale_reapproval_required")
         \o PayloadIssues(action)

----------------------------------------------------------------------------
(* Local calendar events created from approved actions *)

NaN == [nan |-> TRUE, t |-> 0, s |-> 0]

(* days of a civil date on a linear day count; a day past the month's end  *)
(* rolls over into the next month, as Date does                            *)
DayNumber(y, m, d) ==
    LET yy == IF m <= 2 THEN y - 1 ELSE y
        mm == IF m <= 2 THEN m + 12 ELSE m
    IN 365 * yy + (yy \div 4) - (yy \div 100) + (yy \div 400)
       + ((153 * (mm - 3) + 2) \div 5) + d

(* new Date(iso) for the strings combineDateTimeUtc builds: the ES5 format  *)
(* YYYY-MM-DDTHH:mm:ssZ with two-digit fields; any other shape (an hour of  *)
(* one digit) is an Invalid Date.  The instant is kept as the minutes      *)
(* since 1970-01-01T00:00Z (t) and the seconds within the minute (s).      *)
DateParse(s) ==
    IF /\ Len(s) = 20
       /\ DatePattern(SubSeq(s, 1, 10))
       /\ s[11] = "T"
       /\ \A i \in {12, 13, 15, 16, 18, 19} : IsDigit(s[i])
       /\ s[14] = ":" /\ s[17] = ":" /\ s[20] = "Z"
    THEN LET y == NumVal(SubSeq(s, 1, 4))
             mo == NumVal(SubSeq(s, 6, 7))
             d == NumVal(SubSeq(s, 9, 10))
             h == NumVal(SubSeq(s, 12, 13))
             mi == NumVal(SubSeq(s, 15, 16))
             sec == NumVal(SubSeq(s, 18, 19))
         IN IF /\ mo \in 1..12 /\ d \in 1..31
               /\ h <= 24 /\ mi <= 59 /\ sec <= 59
               /\ (h = 24 => mi = 0 /\ sec = 0)
            THEN [nan |-> FALSE,
                  t |-> ((DayNumber(y, mo, d) - DayNumber(1970, 1, 1)) * 24 + h) * 60 + mi,
                  s |-> sec]
            ELSE NaN
    ELSE NaN

(* a <= b on instants, which is how their toISOString texts compare *)
NotAfter(a, b) == a.t < b.t \/ (a.t = b.t /\ a.s <= b.s)

(* combineDateTimeUtc: the parsed instant, or NaN where the code throws     *)
(* invalid_datetime.  toISOString of two instants compares as the instants  *)
(* do, so the instant stands for the string.                                *)
combineDateTimeUtc(date, time) ==
    DateParse(date \o <<"T">>
              \o (IF Len(time) = 5 THEN time \o <<":", "0", "0">> ELSE time)
              \o <<"Z">>)

StringOrEmpty(x) == IF IsString(x) THEN Trim(x.v) ELSE <<>>

(* createLocalCalendarEventFromApprovedAction *)
createLocalCalendarEventFromApprovedAction(db, now, input) ==
    LET db1 == IF db.calendars = <<>>
               THEN [db EXCEPT !.calendars =
                        Append(@, [id |-> 1, provider |-> "local",
                                   name |-> "Local Action Calendar"])]
               ELSE db
        calendar == db1.calendars[1]
        p == input.payload
        title == IF IsString(p.eventTitle) /\ Trim(p.eventTitle.v) # <<>>
                 THEN Trim(p.eventTitle.v)
                 ELSE <<"U", "n", "t", "i", "t", "l", "e", "d">>
        startDate == StringOrEmpty(p.startDate)
        startTime == StringOrEmpty(p.startTime)
        endTime == StringOrEmpty(p.endTime)
    IN
    IF startDate = <<>> \/ startTime = <<>> \/ endTime = <<>>
    THEN Throw(db1, Err("calendar_event_fields_missing", <<>>))
    ELSE
      LET startAt == combineDateTimeUtc(startDate, startTime)
          endAt == combineDateTimeUtc(startDate, endTime)
      IN
      IF startAt.nan \/ endAt.nan THEN Throw(db1, Err("invalid_datetime", <<>>))
      ELSE IF NotAfter(endAt, startAt)
           THEN Throw(db1, Err("calendar_event_end_before_start", <<>>))
      ELSE
        LET event == [id |-> Len(db1.events) + 1,
                      calendarId |-> calendar.id,
                      provider |-> calendar.provider,
                      title |-> title,
                      status |-> "confirmed",
                      startAt |-> startAt,
                      endAt |-> endAt,
                      createdAt |-> now]
            db2 == [db1 EXCEPT !.events = Append(@, event)]
            db3 == writeAuditLog(db2, "calendar_event_created_from_action",
                                 "calendar_event", event.id, "executed",
                                 [NoDetails EXCEPT !.ref = input.actionId], NULL)
        IN Return(db3, [kind |-> "event", id |-> event.id, row |-> event])

(* materializeApprovedSendActionAsLocalDraft: stores the payload as a local *)
(* draft and returns {mode: 'safe_local_draft', draft}; storeFails is a     *)
(* failure of the draft store                                              *)
materializeApprovedSendActionAsLocalDraft(db, now, input, storeFails) ==
    IF storeFails THEN Throw(db, Err("draft_store_failed", <<>>))
    ELSE
      LET draft == [id |-> Len(db.localDrafts) + 1,
                    actionId |-> input.actionId,
                    to |-> input.payload.to,
                    subject |-> input.payload.subject,
                    body |-> input.payload.body,
                    mode |-> "safe_local_draft",
                    createdAt |-> now]
      IN Return([db EXCEPT !.localDrafts = Append(@, draft)],
                [kind |-> "draft", id |-> draft.id, row |-> draft])

(* BlockExecution, marking the rejected action failed *)
BlockExecution_MarksFailed(db, action, policyIssues) ==
    Throw(writeAuditLog([db EXCEPT !.actions[action.id].status = "failed"],
                        "action_execute_blocked", action.targetType,
                        action.id, "blocked",
                        [NoDetails EXCEPT !.actionType = action.actionType,
                                          !.policyIssues = policyIssues],
                        NULL),
          Err("execution_policy_blocked", policyIssues))

(* executeApprovedAction, the gate's rejection: one blocked audit row, then *)
(* the throw                                                               *)
BlockExecution(db, action, policyIssues) ==
    Throw(writeAuditLog(db, "action_execute_blocked", action.targetType,
                        action.id, "blocked",
                        [NoDetails EXCEPT !.actionType = action.actionType,
                                          !.policyIssues = policyIssues],
                        NULL),
          Err("execution_policy_blocked", policyIssues))

(* executeApprovedAction, the side-effecting operation chosen by actionType *)
(* RunOperation, with the calendar branch missing *)
RunOperation_EmailOnly(db, now, action, storeFails) ==
    LET call == [actionId |-> action.id, payload |-> action.payload] IN
    IF action.actionType = "email.send"
    THEN materializeApprovedSendActionAsLocalDraft(db, now, call, storeFails)
    ELSE Throw(db, Err("unsupported_action_execution", <<action.actionType>>))

(* RunOperation, taking every action that is no calendar event for an email *)
RunOperation_EmailByDefault(db, now, action, storeFails) ==
    LET call == [actionId |-> action.id, payload |-> action.payload] IN
    IF action.actionType = "calendar.event.create"
    THEN createLocalCalendarEventFromApprovedAction(db, now, call)
    ELSE materializeApprovedSendActionAsLocalDraft(db, now, call, storeFails)

RunOperation(db, now, action, storeFails) ==
    LET call == [actionId |-> action.id, payload |-> action.payload] IN
    IF action.actionType = "calendar.event.create"
    THEN createLocalCalendarEventFromApprovedAction(db, now, call)
    ELSE IF action.actionType = "email.send"
    THEN materializeApprovedSendActionAsLocalDraft(db, now, call, storeFails)
    ELSE Throw(db, Err("unsupported_action_execution", <<action.actionType>>))

(* FinishExecution, moving the action to executed whether or not the       *)
(* operation threw                                                         *)
FinishExecution_IgnoresThrow(execution, now, input, action) ==
    LET updated == transitionAction(execution.db, now,
                      [actionId |-> action.id, nextStatus |-> "executed",
                       approvedBy |-> OrElse(input.approvedBy,
                                        OrElse(action.approvedBy, "local-user")),
                       errorDetails |-> NULL])
    IN IF ~execution.ok THEN [execution EXCEPT !.db = updated.db]
       ELSE Return(updated.db, [item |-> updated.value, execution |-> execution.value])

(* executeApprovedAction, after the operation: a throw of the operation     *)
(* leaves the function; otherwise the action moves to executed and the     *)
(* completion is audited                                                   *)
FinishExecution(execution, now, input, action) ==
    IF ~execution.ok THEN execution
    ELSE
      LET updated == transitionAction(execution.db, now,
                        [actionId |-> action.id, nextStatus |-> "executed",
                         approvedBy |-> OrElse(input.approvedBy,
                                          OrElse(action.approvedBy, "local-user")),
                         errorDetails |-> NULL])
      IN
      IF ~updated.ok THEN updated
      ELSE Return(writeAuditLog(updated.db, "action_execute_complete",
                                updated.value.targetType, updated.value.id,
                                "executed",
                                [NoDetails EXCEPT
                                   !.actionType = updated.value.actionType],
                                NULL),
                  [item |-> updated.value, execution |-> execution.value])

(* executeApprovedAction: the gate, the side-effecting operation, then the  *)
(* transition to executed                                                  *)
executeApprovedAction(db, now, input, storeFails) ==
    LET action == getAction(db, input.actionId) IN
    IF action.id = NoRef THEN Throw(db, Err("action_not_found", <<>>))
    ELSE IF action.status # "approved" THEN Throw(db, Err("action_not_approved", <<>>))
    ELSE
      LET policyIssues == validateApprovedActionExecution(action, now) IN
      IF Len(policyIssues) > 0 THEN BlockExecution(db, action, policyIssues)
      ELSE
        LET db1 == writeAuditLog(db, "action_execute_begin", action.targetType,
                                 action.id, "prepared",
                                 [NoDetails EXCEPT !.actionType = action.actionType],
                                 NULL)
        IN FinishExecution(RunOperation(db1, now, action, storeFails),
                           now, input, action)

----------------------------------------------------------------------------
(* Email draft centre *)

DraftSubject == <<"R", "e", ":", " ", "q", "3">>

DraftBody == <<"H", "i", ",">>

Recipient == Str(<<"a", "@", "x">>)

NoPayload == [to |-> Undef, subject |-> Undef, body |-> Undef, eventTitle |-> Undef,
              startDate |-> Undef, startTime |-> Undef, endTime |-> Undef]

(* createDraftEmail with the body copied into the payload *)
createDraftEmail_WithBody(db, now, input) ==
    LET draftId == Len(db.drafts) + 1
        approval == prepareAction(db, now,
                       [actionType |-> "email.send",
                        targetType |-> "draft_email",
                        targetRef |-> draftId,
                        payload |-> [NoPayload EXCEPT !.subject = Str(DraftSubject),
                                                      !.to = input.to,
                                                      !.body = Str(DraftBody)],
                        requestedBy |-> OrElse(input.requestedBy, "local-user")])
        row == [id |-> draftId,
                accountId |-> input.accountId,
                to |-> input.to,
                subject |-> DraftSubject,
                body |-> DraftBody,
                status |-> "prepared",
                approvalActionId |-> approval.value.id,
                gmailMessageId |-> NoRef,
                errorDetails |-> NULL,
                createdAt |-> now,
                updatedAt |-> now]
        db1 == [approval.db EXCEPT !.drafts = Append(@, row)]
        db2 == writeAuditLog(db1, "email_draft_created", "draft_email", draftId,
                             "prepared", NoDetails, NULL)
    IN Return(db2, [draft |-> row, approvalAction |-> approval.value])

(* createDraftEmail: prepares an email.send action whose payload is         *)
(* {subject, to} and stores the draft row that carries the body.  accountId *)
(* is the given account or the first connected Google account, if any.     *)
createDraftEmail(db, now, input) ==
    LET draftId == Len(db.drafts) + 1
        approval == prepareAction(db, now,
                       [actionType |-> "email.send",
                        targetType |-> "draft_email",
                        targetRef |-> draftId,
                        payload |-> [NoPayload EXCEPT !.subject = Str(DraftSubject),
                                                      !.to = input.to],
                        requestedBy |-> OrElse(input.requestedBy, "local-user")])
        row == [id |-> draftId,
                accountId |-> input.accountId,
                to |-> input.to,
                subject |-> DraftSubject,
                body |-> DraftBody,
                status |-> "prepared",
                approvalActionId |-> approval.value.id,
                gmailMessageId |-> NoRef,
                errorDetails |-> NULL,
                createdAt |-> now,
                updatedAt |-> now]
        db1 == [approval.db EXCEPT !.drafts = Append(@, row)]
        db2 == writeAuditLog(db1, "email_draft_created", "draft_email", draftId,
                             "prepared", NoDetails, NULL)
    IN Return(db2, [draft |-> row, approvalAction |-> approval.value])

SetDraft(db, draftId, status, messageId, errorDetails, now) ==
    [db EXCEPT !.drafts[draftId] = [@ EXCEPT !.status = status,
                                             !.gmailMessageId = messageId,
                                             !.errorDetails = errorDetails,
                                             !.updatedAt = now]]

(* approveAndSendDraftEmail: approve, send through Gmail, then mark the     *)
(* action executed; a failure after the approval marks it failed.  sendOk   *)
(* is the outcome of gmailSendRawWithRefresh.                               *)
approveAndSendDraftEmail(db, now, input, sendOk) ==
    IF input.draftId \notin 1..Len(db.drafts) THEN Throw(db, Err("draft_not_found", <<>>))
    ELSE
      LET draft == db.drafts[input.draftId]
          by == OrElse(input.approvedBy, "local-user")
      IN
      IF draft.accountId = NoRef THEN Throw(db, Err("google_account_required", <<>>))
      ELSE IF draft.approvalActionId = NoRef
           THEN Throw(db, Err("approval_action_missing", <<>>))
      ELSE
        LET approved == transitionAction(db, now,
                           [actionId |-> draft.approvalActionId,
                            nextStatus |-> "approved", approvedBy |-> by,
                            errorDetails |-> NULL])
        IN
        IF ~approved.ok THEN approved
        ELSE
          LET db1 == [approved.db EXCEPT !.drafts[draft.id] =
                         [@ EXCEPT !.status = "approved", !.updatedAt = now]]
              db2 == IF sendOk THEN [db1 EXCEPT !.sends = @ + 1] ELSE db1
              executed == transitionAction(db2, now,
                             [actionId |-> draft.approvalActionId,
                              nextStatus |-> "executed", approvedBy |-> by,
                              errorDetails |-> NULL])
              message == IF ~sendOk THEN "gmail_send_http_500" ELSE executed.error[1]
          IN
          IF sendOk /\ executed.ok
          THEN LET db3 == SetDraft(executed.db, draft.id, "sent", db2.sends, NULL, now)
                   db4 == writeAuditLog(db3, "email_sent", "draft_email", draft.id,
                                        "executed", NoDetails, NULL)
               IN Return(db4, [draftId |-> draft.id, status |-> "sent"])
          ELSE LET failed == transitionAction(db2, now,
                                [actionId |-> draft.approvalActionId,
                                 nextStatus |-> "failed", approvedBy |-> by,
                                 errorDetails |-> message])
               IN
               IF ~failed.ok THEN failed
               ELSE LET db3 == SetDraft(failed.db, draft.id, "failed",
                                        draft.gmailMessageId, message, now)
                        db4 == writeAuditLog(db3, "email_sent", "draft_email",
                                             draft.id, "failed", NoDetails, message)
                    IN Throw(db4, Err(message, <<>>))

----------------------------------------------------------------------------
(* Request bodies the routes are driven with *)

Subject == Str(<<"H", "i">>)

Body == Str(<<"O", "k">>)

Blank == Str(<<" ">>)

Title == Str(<<" ", "S", "y", "n", "c">>)

Date == Str(<<"2", "0", "2", "6", "-", "0", "3", "-", "0", "5">>)

T1000 == Str(<<"1", "0", ":", "0", "0">>)

T1030 == Str(<<"1", "0", ":", "3", "0">>)

T900 == Str(<<"9", ":", "0", "0">>)

T930 == Str(<<"9", ":", "3", "0">>)

Email(to, subject, body) ==
    [NoPayload EXCEPT !.to = to, !.subject = subject, !.body = body]

Event(title, date, start, end) ==
    [NoPayload EXCEPT !.eventTitle = title, !.startDate = date,
                      !.startTime = start, !.endTime = end]

EmailPayloads ==
    { Email(Arr(<<Recipient>>), Subject, Body),
      Email(Arr(<<Recipient>>), Undef, Undef) }

EventPayloads ==
    { Event(Title, Date, T1000, T1030),
      Event(Title, Date, T1030, T1000),
      Event(Title, Date, T1000, T1000),
      Event(Title, Date, T900, T930),
      Event(Title, Date, T930, T900),
      Event(Blank, Date, T1030, T1000) }

PrepareBodies ==
    [actionType : {"email.send"}, payload : EmailPayloads]
    \cup [actionType : {"calendar.event.create"}, payload : EventPayloads]
    \cup [actionType : {"note.archive"}, payload : {NoPayload}]

ApprovedByInputs == {NULL, "reviewer"}

(* approvedBy and errorDetails of a transition request *)
TransitionInputs ==
    {[approvedBy |-> NULL, errorDetails |-> NULL],
     [approvedBy |-> "reviewer", errorDetails |-> NULL],
     [approvedBy |-> NULL, errorDetails |-> "boom"]}

(* transitionSchema: nextStatus is one of these four *)
NextStatusInputs == {"approved", "executed", "failed", "cancelled"}

(* ids a request may name: the rows there can be, and one that never exists *)
RequestIds == 1..(MaxActions + 1)

----------------------------------------------------------------------------
(* Routes.  audit_logs is written and never read by the services, so the   *)
(* model keeps of it the rows the request at hand appends: every request   *)
(* starts from Db, whose audit is empty.                                   *)

Tables(db) ==
    /\ approvalActions' = db.actions
    /\ auditLogs' = db.audit
    /\ calendars' = db.calendars
    /\ calendarEvents' = db.events
    /\ draftEmails' = db.drafts
    /\ localDrafts' = db.localDrafts
    /\ gmailSends' = db.sends

(* the tables as a service function leaves them; the pending OAuth sessions *)
(* are held in memory by tokenStore.ts and no service function of the       *)
(* database touches them                                                    *)
Store(db) == Tables(db) /\ oauth' = oauth

(* a request handled without another request in between *)
Commit(db) == Store(db) /\ inflight' = inflight

(* the catch block of the action routes: 404 for action_not_found, else 400 *)
ErrorCode(error) == IF error = Err("action_not_found", <<>>) THEN 404 ELSE 400

Respond(op, actionId, nextStatus, r, okCode, errCode) ==
    last' = [op |-> op, id |-> actionId, nextStatus |-> nextStatus,
             ok |-> r.ok, http |-> IF r.ok THEN okCode ELSE errCode,
             error |-> r.error, value |-> r.value]

IsStaleRejection(r) ==
    /\ ~r.ok
    /\ \E i \in 1..Len(r.error) : r.error[i] = "approval_stale_reapproval_required"

(* POST /api/actions/prepare *)
PrepareRoute ==
    \E body \in PrepareBodies :
      /\ Len(approvalActions) < MaxActions
      /\ LET r == prepareAction(Db, clock,
                     [actionType |-> body.actionType, targetType |-> "request",
                      targetRef |-> NoRef, payload |-> body.payload,
                      requestedBy |-> "local-user"])
         IN /\ Commit(r.db)
            /\ Respond("prepare", r.value.id, "prepared", r, 201, 400)
      /\ UNCHANGED <<clock, phase>>

(* POST /api/actions/:actionId/transition, a request for executed: the gate *)
ExecuteRequest ==
    \E actionId \in RequestIds, approvedBy \in ApprovedByInputs,
       storeFails \in BOOLEAN :
      /\ LET r == executeApprovedAction(Db, clock,
                     [actionId |-> actionId, approvedBy |-> approvedBy],
                     storeFails)
         IN /\ Commit(r.db)
            /\ Respond("execute", actionId, "executed", r, 200, ErrorCode(r.error))
            /\ phase' = [phase EXCEPT ![actionId] =
                           IF IsStaleRejection(r) THEN "stale_rejected"
                           ELSE IF r.ok /\ @ = "reaffirmed" THEN "reaffirmed_executed"
                           ELSE "none"]
      /\ UNCHANGED clock

(* POST /api/actions/:actionId/transition, any other request: the state     *)
(* machine                                                                 *)
TransitionRequest ==
    \E actionId \in RequestIds, nextStatus \in NextStatusInputs \ {"executed"},
       body \in TransitionInputs :
      /\ LET r == transitionAction(Db, clock,
                     [actionId |-> actionId, nextStatus |-> nextStatus,
                      approvedBy |-> body.approvedBy,
                      errorDetails |-> body.errorDetails])
         IN /\ Commit(r.db)
            /\ Respond("transition", actionId, nextStatus, r, 200, ErrorCode(r.error))
      /\ UNCHANGED <<clock, phase>>

(* POST /api/actions/:actionId/transition *)
TransitionRoute == ExecuteRequest \/ TransitionRequest

(* POST /api/actions/:actionId/reaffirm *)
ReaffirmRoute ==
    \E actionId \in RequestIds, approvedBy \in ApprovedByInputs :
      /\ LET r == reaffirmAction(Db, clock,
                     [actionId |-> actionId, approvedBy |-> approvedBy])
         IN /\ Commit(r.db)
            /\ Respond("reaffirm", actionId, "approved", r, 200, ErrorCode(r.error))
            /\ phase' = [phase EXCEPT ![actionId] =
                           IF r.ok /\ @ = "stale_rejected" THEN "reaffirmed" ELSE @]
      /\ UNCHANGED clock

(* POST /api/email/drafts/generate *)
GenerateDraftRoute ==
    \E accountId \in {NoRef, 1} :
      /\ Len(approvalActions) < MaxActions
      /\ LET r == createDraftEmail(Db, clock,
                     [accountId |-> accountId, to |-> Arr(<<Recipient>>),
                      requestedBy |-> NULL])
         IN /\ Commit(r.db)
            /\ Respond("generate", r.value.approvalAction.id, "prepared", r, 201, 400)
      /\ UNCHANGED <<clock, phase>>

(* POST /api/email/drafts/:draftId/approve-send *)
ApproveSendRoute ==
    \E draftId \in RequestIds, approvedBy \in ApprovedByInputs, sendOk \in BOOLEAN :
      /\ LET r == approveAndSendDraftEmail(Db, clock,
                     [draftId |-> draftId, approvedBy |-> approvedBy], sendOk)
         IN /\ Commit(r.db)
            /\ Respond("approve_send",
                       IF draftId \in 1..Len(draftEmails)
                       THEN draftEmails[draftId].approvalActionId ELSE NoRef,
                       "executed", r, 200,
                       IF r.error = Err("draft_not_found", <<>>) THEN 404 ELSE 400)
      /\ UNCHANGED <<clock, phase>>

(* the transition route of desktop/apps/sidecar/src/routes/actions.ts:      *)
(* every nextStatus, executed included, goes to the state machine          *)
StateMachineTransitionRoute ==
    \E actionId \in RequestIds, nextStatus \in NextStatusInputs,
       body \in TransitionInputs :
      /\ LET r == transitionAction(Db, clock,
                     [actionId |-> actionId, nextStatus |-> nextStatus,
                      approvedBy |-> body.approvedBy,
                      errorDetails |-> body.errorDetails])
         IN /\ Commit(r.db)
            /\ Respond(IF nextStatus = "executed" THEN "execute" ELSE "transition",
                       actionId, nextStatus, r, 200, ErrorCode(r.error))
      /\ UNCHANGED <<clock, phase>>

(* time passes: a week, or a week and a day *)
Tick ==
    \E d \in {StaleAfterDays, StaleAfterDays + 1} :
      /\ clock + d <= MaxClock
      /\ clock' = clock + d
      /\ UNCHANGED <<approvalActions, auditLogs, calendars, calendarEvents,
                     draftEmails, localDrafts, gmailSends, last, phase, inflight, oauth>>

Init ==
    /\ approvalActions = <<>>
    /\ auditLogs = <<>>
    /\ calendars = <<>>
    /\ calendarEvents = <<>>
    /\ draftEmails = <<>>
    /\ localDrafts = <<>>
    /\ gmailSends = 0
    /\ clock = 0
    /\ last = [op |-> "none", id |-> NoRef, nextStatus |-> "none",
               ok |-> TRUE, http |-> 200, error |-> NoError, value |-> NoRow]
    /\ phase = [i \in RequestIds |-> "none"]
    /\ inflight = [s \in 1..MaxInFlight |-> Idle]
    /\ oauth = [pendingPkce |-> <<>>, issued |-> 0, exchanges |-> <<>>]

(* the sidecar whose action routes are those of part_006 *)
Next ==
    \/ PrepareRoute
    \/ ExecuteRequest
    \/ TransitionRequest
    \/ ReaffirmRoute
    \/ GenerateDraftRoute
    \/ ApproveSendRoute
    \/ Tick

Spec == Init /\ [][Next]_vars

(* the sidecar whose action routes are those of                            *)
(* desktop/apps/sidecar/src/routes/actions.ts (no gate, no reaffirm route)  *)
StateMachineNext ==
    \/ PrepareRoute
    \/ StateMachineTransitionRoute
    \/ GenerateDraftRoute
    \/ ApproveSendRoute
    \/ Tick

StateMachineSpec == Init /\ [][StateMachineNext]_vars

----------------------------------------------------------------------------
(* Vocabulary of the properties *)

(* a route has handled a request in this step: routes leave the clock      *)
(* alone, and the request and its response are in last'                    *)
Requested == clock' = clock

Has(id) == id \in 1..Len(approvalActions)

Ended == {"executed", "failed", "cancelled"}

AnyStatus == {"prepared", "approved", "executed", "failed", "cancelled"}

SixEdges ==
    { <<"prepared", "approved">>, <<"prepared", "cancelled">>, <<"prepared", "failed">>,
      <<"approved", "executed">>, <<"approved", "failed">>, <<"approved", "cancelled">> }

TransitionInput(id, nextStatus, body) ==
    [actionId |-> id, nextStatus |-> nextStatus,
     approvedBy |-> body.approvedBy, errorDetails |-> body.errorDetails]

(* the approval_transition rows for action id among rows *)
TransitionsOf(rows, id) ==
    LET IsOne(e) == e.actionType = "approval_transition" /\ e.targetRef = id
    IN SelectSeq(rows, IsOne)

(* rows lead from status from to status to, edge by edge *)
Chain(rows, from, to) ==
    IF rows = <<>> THEN from = to
    ELSE /\ rows[1].details.from = from
         /\ rows[Len(rows)].details.to = to
         /\ \A i \in 1..(Len(rows) - 1) : rows[i].details.to = rows[i + 1].details.from
         /\ \A i \in 1..Len(rows) : <<rows[i].details.from, rows[i].details.to>> \in SixEdges

StatusBefore(id) == IF Has(id) THEN approvalActions[id].status ELSE "prepared"

----------------------------------------------------------------------------
(* C1.  A transitionAction call on a non-terminal action succeeds exactly   *)
(* when it asks for one of the six edges, and then stores the new status;  *)
(* any other request is rejected with invalid_transition:<from>-><to> and  *)
(* changes nothing.  Every status change of a step is a chain of audited   *)
(* transitions along the six edges, so an action that becomes executed     *)
(* was approved just before.                                               *)

C1_Calls ==
    \A id \in 1..Len(approvalActions), nextStatus \in AnyStatus,
       body \in TransitionInputs :
      LET current == approvalActions[id]
          r == transitionAction(Db, clock, TransitionInput(id, nextStatus, body))
      IN current.status \notin Ended =>
           IF <<current.status, nextStatus>> \in SixEdges
           THEN r.ok /\ r.db.actions[id].status = nextStatus
                     /\ r.value.status = nextStatus
           ELSE /\ ~r.ok
                /\ r.error = <<"invalid_transition", current.status, nextStatus>>
                /\ r.db = Db

C1_Steps ==
    \A id \in 1..Len(approvalActions') :
      LET rows == IF Requested THEN TransitionsOf(auditLogs', id) ELSE <<>> IN
      /\ Chain(rows, StatusBefore(id), approvalActions'[id].status)
      /\ (approvalActions'[id].status = "executed" /\ StatusBefore(id) # "executed"
            => rows[Len(rows)].details.from = "approved")

C1_SixEdges == [](C1_Calls) /\ [][C1_Steps]_vars

C1_Witness ==
    /\ last.op = "transition" /\ ~last.ok
    /\ Has(last.id)
    /\ last.error = <<"invalid_transition", approvalActions[last.id].status,
                      last.nextStatus>>

----------------------------------------------------------------------------
(* C2.  Once an action is executed, failed or cancelled, every transition   *)
(* call on it is rejected with action_terminal, every reaffirm and every   *)
(* gated execution of it is rejected, none of them writes anything, and no *)
(* step changes its row.                                                   *)

C2_Calls ==
    \A id \in 1..Len(approvalActions) :
      approvalActions[id].status \in Ended =>
        /\ \A nextStatus \in AnyStatus, body \in TransitionInputs :
             LET r == transitionAction(Db, clock, TransitionInput(id, nextStatus, body))
             IN ~r.ok /\ r.error = <<"action_terminal">> /\ r.db = Db
        /\ \A approvedBy \in ApprovedByInputs :
             LET r == reaffirmAction(Db, clock,
                         [actionId |-> id, approvedBy |-> approvedBy])
             IN ~r.ok /\ r.error = <<"action_not_approved">> /\ r.db = Db
        /\ \A approvedBy \in ApprovedByInputs, storeFails \in BOOLEAN :
             LET r == executeApprovedAction(Db, clock,
                         [actionId |-> id, approvedBy |-> approvedBy], storeFails)
             IN ~r.ok /\ r.error = <<"action_not_approved">> /\ r.db = Db

C2_Steps ==
    \A id \in 1..Len(approvalActions) :
      approvalActions[id].status \in Ended => approvalActions'[id] = approvalActions[id]

C2_TerminalIsFinal == [](C2_Calls) /\ [][C2_Steps]_vars

C2_Witness ==
    /\ last.op = "transition" /\ ~last.ok /\ last.error = <<"action_terminal">>
    /\ Has(last.id) /\ approvalActions[last.id].status = "failed"

----------------------------------------------------------------------------
(* C3.  As claimed: whenever a step moves an action to executed, the gate   *)
(* ran in that step (it audited action_execute_begin for the action) and   *)
(* its staleness and payload checks pass for the action.                   *)

GateRan(rows, id) ==
    \E i \in 1..Len(rows) :
      rows[i].actionType = "action_execute_begin" /\ rows[i].targetRef = id

C3_Steps ==
    \A id \in 1..Len(approvalActions') :
      (approvalActions'[id].status = "executed" /\ StatusBefore(id) # "executed")
        => /\ Has(id)
           /\ GateRan(auditLogs', id)
           /\ validateApprovedActionExecution(approvalActions[id], clock) = <<>>

C3_ExecutedOnlyThroughGate == [][C3_Steps]_vars

----------------------------------------------------------------------------
(* C4.  In a gated execution the operation's effect (a calendar event, a    *)
(* local draft) appears only if both gate checks pass; the action becomes  *)
(* executed only in a request whose operation returned, with the           *)
(* transition audited after the operation's own rows; and when the gate    *)
(* passes but the request fails, the action's row is unchanged (approved). *)

GatePasses(action) ==
    /\ action.status = "approved"
    /\ clock - action.updatedAt <= StaleAfterDays
    /\ PayloadIssues(action) = <<>>

AuditTypes(rows) == [i \in 1..Len(rows) |-> rows[i].actionType]

C4_Steps ==
    (Requested /\ last'.op = "execute") =>
      LET id == last'.id
          effect == calendarEvents' # calendarEvents \/ localDrafts' # localDrafts
      IN /\ effect => Has(id) /\ GatePasses(approvalActions[id])
         /\ (Has(id) /\ approvalActions'[id].status = "executed"
                     /\ approvalActions[id].status # "executed")
              => /\ last'.ok /\ effect
                 /\ AuditTypes(auditLogs') \in
                      { <<"action_execute_begin", "calendar_event_created_from_action",
                          "approval_transition", "action_execute_complete">>,
                        <<"action_execute_begin", "approval_transition",
                          "action_execute_complete">> }
         /\ (Has(id) /\ GatePasses(approvalActions[id]) /\ ~last'.ok)
              => /\ approvalActions' = approvalActions
                 /\ ~effect

C4_EffectThenExecuted == [][C4_Steps]_vars

C4_Witness ==
    /\ last.op = "execute" /\ ~last.ok
    /\ last.error = <<"calendar_event_end_before_start">>
    /\ Has(last.id) /\ approvalActions[last.id].status = "approved"

----------------------------------------------------------------------------
(* C5.  A gated execution that the gate rejects (execution_policy_blocked)  *)
(* leaves the approval_actions table as it was, appends exactly one audit  *)
(* row, of status blocked and for that action, and creates no calendar,    *)
(* calendar event or draft.                                                *)

C5_Steps ==
    (Requested /\ last'.op = "execute" /\ ~last'.ok
       /\ last'.error[1] = "execution_policy_blocked")
      => /\ approvalActions' = approvalActions
         /\ Has(last'.id) /\ approvalActions[last'.id].status = "approved"
         /\ Len(auditLogs') = 1
         /\ auditLogs'[1].status = "blocked"
         /\ auditLogs'[1].actionType = "action_execute_blocked"
         /\ auditLogs'[1].targetRef = last'.id
         /\ UNCHANGED <<calendars, calendarEvents, localDrafts, draftEmails, gmailSends>>

C5_BlockedChangesNothing == [][C5_Steps]_vars

C5_Witness ==
    /\ last.op = "execute" /\ ~last.ok
    /\ last.error[1] = "execution_policy_blocked"
    /\ auditLogs # <<>> /\ auditLogs[1].status = "blocked"

----------------------------------------------------------------------------
(* What the properties say of payloads, in their own words *)

NonEmptyText(x) == x.t = "string" /\ \E i \in 1..Len(x.v) : x.v[i] # " "

(* recipients, a subject and a body *)
CompleteEmail(p) ==
    /\ p.to.t = "array" /\ Len(p.to.v) > 0
    /\ \A i \in 1..Len(p.to.v) : p.to.v[i].t = "string"
    /\ NonEmptyText(p.subject) /\ NonEmptyText(p.body)

(* H:MM or HH:MM *)
ClockText(x) ==
    /\ x.t = "string"
    /\ Len(x.v) \in {4, 5}
    /\ x.v[Len(x.v) - 2] = ":"
    /\ \A i \in (1..Len(x.v)) \ {Len(x.v) - 2} : x.v[i] \in Digits

(* minutes after midnight of an H:MM or HH:MM text *)
MinuteOfDay(x) ==
    LET n == Len(x.v)
    IN NumVal(SubSeq(x.v, 1, n - 3)) * 60 + NumVal(SubSeq(x.v, n - 1, n))

(* HH:MM, an hour of the day and a minute of the hour *)
TwoDigitClock(x) ==
    /\ ClockText(x) /\ Len(x.v) = 5
    /\ NumVal(SubSeq(x.v, 1, 2)) <= 23
    /\ NumVal(SubSeq(x.v, 4, 5)) <= 59

(* YYYY-MM-DD, a day every month has *)
CalendarDate(x) ==
    /\ x.t = "string" /\ Len(x.v) = 10
    /\ x.v[5] = "-" /\ x.v[8] = "-"
    /\ \A i \in {1, 2, 3, 4, 6, 7, 9, 10} : x.v[i] \in Digits
    /\ NumVal(SubSeq(x.v, 6, 7)) \in 1..12
    /\ NumVal(SubSeq(x.v, 9, 10)) \in 1..28

(* a title, a date, and HH:MM times with the end after the start *)
WellFormedEvent(p) ==
    /\ NonEmptyText(p.eventTitle)
    /\ CalendarDate(p.startDate)
    /\ TwoDigitClock(p.startTime) /\ TwoDigitClock(p.endTime)
    /\ MinuteOfDay(p.endTime) > MinuteOfDay(p.startTime)

Fresh(action) == clock - action.updatedAt <= 7

ExecuteInput(id, approvedBy) == [actionId |-> id, approvedBy |-> approvedBy]

----------------------------------------------------------------------------
(* C6.  As claimed: an approved action whose updatedAt is more than 7 days  *)
(* old is rejected on an execution request with                            *)
(* approval_stale_reapproval_required and stays approved; and the first    *)
(* execution request after it was then reaffirmed succeeds and moves it to *)
(* executed whenever its payload passes the completeness check.  The       *)
(* second half is read in the claim's favour: the action is still          *)
(* approved and not stale again at that request, its type is one the       *)
(* executor supports, the draft store does not fail, and the date and      *)
(* times are ones the Date parser accepts.                                 *)

C6_StaleRejected ==
    (Requested /\ last'.op = "execute" /\ Has(last'.id)
       /\ approvalActions[last'.id].status = "approved"
       /\ clock - approvalActions[last'.id].updatedAt > 7)
      => /\ ~last'.ok
         /\ \E i \in 1..Len(last'.error) :
              last'.error[i] = "approval_stale_reapproval_required"
         /\ approvalActions' = approvalActions

C6_Original_AfterReaffirm ==
    (Requested /\ last'.op = "execute" /\ Has(last'.id)
       /\ phase[last'.id] = "reaffirmed"
       /\ approvalActions[last'.id].status = "approved"
       /\ Fresh(approvalActions[last'.id])
       /\ approvalActions[last'.id].actionType \in {"email.send", "calendar.event.create"}
       /\ PayloadIssues(approvalActions[last'.id]) = <<>>
       /\ last'.error # <<"draft_store_failed">>
       /\ last'.error # <<"invalid_datetime">>)
      => last'.ok /\ approvalActions'[last'.id].status = "executed"

C6_AfterReaffirm ==
    \A id \in 1..Len(approvalActions), approvedBy \in ApprovedByInputs,
       storeFails \in BOOLEAN :
      LET action == approvalActions[id]
          r == executeApprovedAction(Db, clock, ExecuteInput(id, approvedBy), storeFails)
      IN (/\ phase[id] = "reaffirmed"
          /\ action.status = "approved" /\ Fresh(action)
          /\ PayloadIssues(action) = <<>>
          /\ RunOperation(Db, clock, action, storeFails).ok)
           => r.ok /\ r.db.actions[id].status = "executed"

C6_AfterReaffirmStep ==
    (Requested /\ last'.op = "execute" /\ Has(last'.id)
       /\ phase[last'.id] = "reaffirmed" /\ last'.ok)
      => approvalActions'[last'.id].status = "executed"

----------------------------------------------------------------------------
(* C7.  reaffirmAction on an unknown id fails with action_not_found, on an  *)
(* action of any status other than approved fails with                     *)
(* action_not_approved, and writes nothing in either case; on an approved  *)
(* action it succeeds, sets updatedAt to now and approvedBy to the given   *)
(* approver (keeping the old one when none is given), and leaves every     *)
(* other field of the action, and every other table, as it was.  The route *)
(* answers 404 for the unknown id and 400 for the other failure.           *)

C7_Calls ==
    \A id \in RequestIds, approvedBy \in ApprovedByInputs :
      LET r == reaffirmAction(Db, clock, ExecuteInput(id, approvedBy)) IN
      IF ~Has(id)
      THEN ~r.ok /\ r.error = <<"action_not_found">> /\ r.db = Db
      ELSE IF approvalActions[id].status # "approved"
      THEN ~r.ok /\ r.error = <<"action_not_approved">> /\ r.db = Db
      ELSE LET stamped == [approvalActions[id] EXCEPT
                             !.updatedAt = clock,
                             !.approvedBy = IF approvedBy # NULL THEN approvedBy ELSE @]
           IN /\ r.ok /\ r.value = stamped
              /\ r.db.actions = [approvalActions EXCEPT ![id] = stamped]
              /\ [r.db EXCEPT !.actions = approvalActions, !.audit = <<>>] = Db

C7_Steps ==
    (Requested /\ last'.op = "reaffirm")
      => /\ last'.ok => /\ Has(last'.id) /\ last'.http = 200
                        /\ approvalActions[last'.id].status = "approved"
                        /\ approvalActions'[last'.id].status = "approved"
                        /\ approvalActions'[last'.id].updatedAt = clock
                        /\ approvalActions'[last'.id].payload
                             = approvalActions[last'.id].payload
         /\ ~last'.ok => /\ approvalActions' = approvalActions
                         /\ last'.http = IF Has(last'.id) THEN 400 ELSE 404
         /\ UNCHANGED <<calendars, calendarEvents, localDrafts, draftEmails, gmailSends>>

C7_ReaffirmOnlyRestamps == [](C7_Calls) /\ [][C7_Steps]_vars

C7_Witness ==
    /\ last.op = "reaffirm" /\ last.ok /\ Has(last.id)
    /\ approvalActions[last.id].status = "approved"
    /\ approvalActions[last.id].updatedAt = clock
    /\ approvalActions[last.id].createdAt < clock
    /\ approvalActions[last.id].approvedBy = "reviewer"

----------------------------------------------------------------------------
(* C8.  As claimed: a transition request for executed on an approved        *)
(* email.send action whose payload lacks subject or body is answered 400   *)
(* with an error that starts with execution_policy_blocked, and the action *)
(* stays approved.                                                         *)

C8_Steps ==
    (Requested /\ last'.op = "execute" /\ last'.nextStatus = "executed"
       /\ Has(last'.id)
       /\ approvalActions[last'.id].status = "approved"
       /\ approvalActions[last'.id].actionType = "email.send"
       /\ (~NonEmptyText(approvalActions[last'.id].payload.subject)
             \/ ~NonEmptyText(approvalActions[last'.id].payload.body)))
      => /\ ~last'.ok /\ last'.http = 400
         /\ last'.error[1] = "execution_policy_blocked"
         /\ approvalActions'[last'.id].status = "approved"

C8_ExecutedRequestsAreGated == [][C8_Steps]_vars

----------------------------------------------------------------------------
(* C9.  Executing an approved action that is not stale, with no failure of  *)
(* the draft store, succeeds when it is an email.send with recipients,     *)
(* subject and body or a calendar.event.create with a title, a calendar    *)
(* date and HH:MM times, the end after the start: the action is executed   *)
(* and the result carries the local draft, or the calendar event, that the *)
(* request stored.                                                         *)

C9_Calls ==
    \A id \in 1..Len(approvalActions), approvedBy \in ApprovedByInputs :
      LET action == approvalActions[id]
          r == executeApprovedAction(Db, clock, ExecuteInput(id, approvedBy), FALSE)
      IN (action.status = "approved" /\ Fresh(action)) =>
           /\ (action.actionType = "email.send" /\ CompleteEmail(action.payload))
                => /\ r.ok /\ r.db.actions[id].status = "executed"
                   /\ r.value.item = r.db.actions[id]
                   /\ r.value.execution.kind = "draft"
                   /\ r.value.execution.row.mode = "safe_local_draft"
                   /\ r.db.localDrafts = Append(localDrafts, r.value.execution.row)
           /\ (action.actionType = "calendar.event.create"
                 /\ WellFormedEvent(action.payload))
                => /\ r.ok /\ r.db.actions[id].status = "executed"
                   /\ r.value.item = r.db.actions[id]
                   /\ r.value.execution.kind = "event"
                   /\ r.db.events = Append(calendarEvents, r.value.execution.row)

C9_Steps ==
    (Requested /\ last'.op = "execute" /\ last'.ok)
      => /\ last'.http = 200
         /\ approvalActions'[last'.id].status = "executed"
         /\ last'.value.item = approvalActions'[last'.id]
         /\ \/ localDrafts' = Append(localDrafts, last'.value.execution.row)
            \/ calendarEvents' = Append(calendarEvents, last'.value.execution.row)

----------------------------------------------------------------------------
(* C10.  As claimed, for an action the gate lets through: executing an      *)
(* approved, not stale calendar.event.create action with a title, a        *)
(* YYYY-MM-DD date and H:MM or HH:MM times, the end not after the start,   *)
(* is rejected with calendar_event_end_before_start, stores no calendar    *)
(* event, and leaves the action approved.                                  *)

C10_Steps ==
    (Requested /\ last'.op = "execute" /\ Has(last'.id)
       /\ approvalActions[last'.id].status = "approved"
       /\ approvalActions[last'.id].actionType = "calendar.event.create"
       /\ Fresh(approvalActions[last'.id])
       /\ NonEmptyText(approvalActions[last'.id].payload.eventTitle)
       /\ CalendarDate(approvalActions[last'.id].payload.startDate)
       /\ ClockText(approvalActions[last'.id].payload.startTime)
       /\ ClockText(approvalActions[last'.id].payload.endTime)
       /\ MinuteOfDay(approvalActions[last'.id].payload.endTime)
            <= MinuteOfDay(approvalActions[last'.id].payload.startTime))
      => /\ ~last'.ok
         /\ last'.error = <<"calendar_event_end_before_start">>
         /\ calendarEvents' = calendarEvents
         /\ approvalActions' = approvalActions

C10_EndBeforeStartRejected == [][C10_Steps]_vars

----------------------------------------------------------------------------
(* Multi-agent orchestration engine: tool calls and the Judge *)

MaxCalls == 2

(* args of a tool call: the keys the engine reads *)
NoArgs == [to |-> Undef, subject |-> Undef, body |-> Undef, eventTitle |-> Undef,
           startDate |-> Undef, startTime |-> Undef, endTime |-> Undef,
           mode |-> Undef, anchorDate |-> Undef, prompt |-> Undef,
           requestedBy |-> Undef]

Week == Str(<<"w", "e", "e", "k">>)

Today == Str(<<"t", "o", "d", "a", "y">>)

EmptyText == Str(<<>>)

(* value.filter((x) => typeof x === 'string') *)
RECURSIVE StringsOf(_)
StringsOf(items) ==
    IF items = <<>> THEN <<>>
    ELSE (IF IsString(Head(items)) THEN <<Head(items)>> ELSE <<>>)
         \o StringsOf(Tail(items))

(* Array.isArray(x) ? x.filter(string) : [] *)
StringItems(x) == IF x.t = "array" THEN StringsOf(x.v) ELSE <<>>

(* typeof x === 'string' ? x.trim() : '' *)
TrimmedText(x) == IF IsString(x) THEN Trim(x.v) ELSE <<>>

NoCall == [id |-> 0, tool |-> "none", args |-> NoArgs, sideEffect |-> FALSE]

(* buildToolCall: NoCall stands for null *)
buildToolCall(tool, args, callId) ==
    LET mode == IF args.mode = Week THEN Week ELSE Today
        anchorDate == IF IsString(args.anchorDate) /\ args.anchorDate.v # <<>>
                      THEN args.anchorDate ELSE Undef
    IN
    IF tool \in {"calendar.summary", "calendar.events"}
    THEN [id |-> callId, tool |-> tool,
          args |-> [NoArgs EXCEPT !.mode = mode, !.anchorDate = anchorDate],
          sideEffect |-> FALSE]
    ELSE IF tool = "email.draft.generate"
    THEN [id |-> callId, tool |-> tool,
          args |-> [NoArgs EXCEPT
                      !.to = Arr(StringItems(args.to)),
                      !.prompt = IF IsString(args.prompt) THEN args.prompt ELSE EmptyText,
                      !.requestedBy = IF IsString(args.requestedBy)
                                         /\ args.requestedBy.v # <<>>
                                      THEN args.requestedBy ELSE Undef],
          sideEffect |-> TRUE]
    ELSE IF tool \in {"email.send", "calendar.event.create", "delete.resource"}
    THEN [id |-> callId, tool |-> tool, args |-> args, sideEffect |-> TRUE]
    ELSE NoCall

(* planWithLlm: raw.toolCalls.map(buildToolCall).filter(Boolean); call ids   *)
(* are the positions in the raw list                                        *)
RECURSIVE BuildCalls(_, _)
BuildCalls(raw, n) ==
    IF raw = <<>> THEN <<>>
    ELSE LET call == buildToolCall(Head(raw).tool, Head(raw).args, n)
         IN (IF call = NoCall THEN <<>> ELSE <<call>>) \o BuildCalls(Tail(raw), n + 1)

(* the first occurrences of the items, in order *)
RECURSIVE FirstOccurrences(_)
FirstOccurrences(items) ==
    IF items = <<>> THEN <<>>
    ELSE LET rest == FirstOccurrences(SubSeq(items, 1, Len(items) - 1))
             x == items[Len(items)]
         IN IF \E i \in 1..Len(rest) : rest[i] = x THEN rest ELSE Append(rest, x)

(* Unique, keeping every occurrence *)
Unique_KeepsDuplicates(items) == items

(* [...new Set(items)] *)
Unique(items) == FirstOccurrences(items)

(* toolCalls.some((t) => t.sideEffect) *)
SomeSideEffect(toolCalls) == \E i \in 1..Len(toolCalls) : toolCalls[i].sideEffect

(* SomeApprovalTool, with only email.send on the list *)
SomeApprovalTool_OnlyEmailSend(toolCalls) ==
    \E i \in 1..Len(toolCalls) : toolCalls[i].tool \in {"email.send"}

(* toolCalls.some((t) => [email.send, calendar.event.create,                *)
(* delete.resource].includes(t.tool))                                       *)
SomeApprovalTool(toolCalls) ==
    \E i \in 1..Len(toolCalls) :
      toolCalls[i].tool \in {"email.send", "calendar.event.create", "delete.resource"}

(* judgePlan, the body of the loop for one tool call: what it adds to       *)
(* requiredFields and policyNotes                                           *)
FieldsOf(toolCall) ==
    LET a == toolCall.args IN
    IF toolCall.tool = "email.send"
    THEN IssueIf(Len(StringItems(a.to)) = 0, "recipient")
         \o IssueIf(TrimmedText(a.subject) = <<>>, "subject")
         \o IssueIf(TrimmedText(a.body) = <<>>, "body")
    ELSE IF toolCall.tool = "calendar.event.create"
    THEN IssueIf(TrimmedText(a.eventTitle) = <<>>, "eventTitle")
         \o IssueIf(TrimmedText(a.startDate) = <<>>, "startDate")
         \o IssueIf(TrimmedText(a.startTime) = <<>>, "startTime")
         \o IssueIf(TrimmedText(a.endTime) = <<>>, "endTime")
    ELSE IF toolCall.tool = "email.draft.generate"
    THEN IssueIf(Len(a.to.v) = 0, "recipient")
    ELSE <<>>

(* a policy note is a sequence of text pieces: one piece where the note is  *)
(* a fixed text, several where the code interpolates                       *)
Note(text) == <<text>>

NotesOf(toolCall) ==
    IF toolCall.tool = "email.send"
    THEN <<Note("Email sending requires explicit approval.")>>
    ELSE IF toolCall.tool = "calendar.event.create"
    THEN <<Note("Calendar event creation requires explicit approval.")>>
    ELSE IF toolCall.tool = "delete.resource"
    THEN <<Note("Deletion requires explicit confirmation and approval.")>>
    ELSE IF toolCall.tool = "email.draft.generate" /\ Len(toolCall.args.to.v) = 0
    THEN <<Note("Need at least one email recipient to generate a draft.")>>
    ELSE <<>>

(* judgePlan, the loop from tool call i on: stops at a delete.resource      *)
RECURSIVE JudgeLoop(_, _, _, _)
JudgeLoop(toolCalls, i, requiredFields, policyNotes) ==
    IF i > Len(toolCalls)
    THEN [deleted |-> FALSE, requiredFields |-> requiredFields,
          policyNotes |-> policyNotes]
    ELSE IF toolCalls[i].tool = "delete.resource"
    THEN [deleted |-> TRUE, requiredFields |-> requiredFields,
          policyNotes |-> policyNotes \o NotesOf(toolCalls[i])]
    ELSE JudgeLoop(toolCalls, i + 1, requiredFields \o FieldsOf(toolCalls[i]),
                   policyNotes \o NotesOf(toolCalls[i]))

(* judgePlan, with a delete.resource call treated as one more call that     *)
(* needs approval                                                          *)
judgePlan_DeleteNeedsApproval(plan) ==
    LET loop == JudgeLoop(plan.toolCalls, 1, <<>>, <<>>) IN
    IF ~loop.deleted /\ Len(loop.requiredFields) > 0
    THEN [status |-> "needs_clarification",
          requiredFields |-> Unique(loop.requiredFields),
          policyNotes |-> loop.policyNotes,
          requiresApproval |-> SomeSideEffect(plan.toolCalls)]
    ELSE IF SomeApprovalTool(plan.toolCalls)
    THEN [status |-> "requires_approval", requiredFields |-> <<>>,
          policyNotes |-> loop.policyNotes, requiresApproval |-> TRUE]
    ELSE [status |-> "proceed", requiredFields |-> <<>>,
          policyNotes |-> loop.policyNotes, requiresApproval |-> FALSE]

(* judgePlan *)
judgePlan(plan) ==
    LET loop == JudgeLoop(plan.toolCalls, 1, <<>>, <<>>) IN
    IF loop.deleted
    THEN [status |-> "blocked", requiredFields |-> <<"confirmDeleteTarget">>,
          policyNotes |-> loop.policyNotes, requiresApproval |-> TRUE]
    ELSE IF Len(loop.requiredFields) > 0
    THEN [status |-> "needs_clarification",
          requiredFields |-> Unique(loop.requiredFields),
          policyNotes |-> loop.policyNotes,
          requiresApproval |-> SomeSideEffect(plan.toolCalls)]
    ELSE IF SomeApprovalTool(plan.toolCalls)
    THEN [status |-> "requires_approval", requiredFields |-> <<>>,
          policyNotes |-> IF Len(loop.policyNotes) > 0 THEN loop.policyNotes
                          ELSE <<Note("External action requires approval.")>>,
          requiresApproval |-> TRUE]
    ELSE [status |-> "proceed", requiredFields |-> <<>>,
          policyNotes |-> loop.policyNotes, requiresApproval |-> FALSE]

(* FirstFailed, finding the last failed result *)
FirstFailed_Last(toolResults) ==
    IF \E i \in 1..Len(toolResults) : ~toolResults[i].ok
    THEN CHOOSE i \in 1..Len(toolResults) :
           ~toolResults[i].ok /\ \A j \in (i + 1)..Len(toolResults) : toolResults[j].ok
    ELSE 0

(* results.find((r) => !r.ok): its position, 0 for none *)
FirstFailed(toolResults) ==
    IF \E i \in 1..Len(toolResults) : ~toolResults[i].ok
    THEN CHOOSE i \in 1..Len(toolResults) :
           ~toolResults[i].ok /\ \A j \in 1..(i - 1) : toolResults[j].ok
    ELSE 0

(* postToolJudge: the note is `Tool execution failed: <tool> (<error>)`,   *)
(* the error being unknown_error where the result carries none             *)
postToolJudge(initial, toolResults) ==
    IF initial.status # "proceed" THEN initial
    ELSE IF FirstFailed(toolResults) = 0 THEN initial
    ELSE LET failed == toolResults[FirstFailed(toolResults)]
         IN [status |-> "blocked", requiredFields |-> <<>>,
             policyNotes |-> <<<<"Tool execution failed", failed.tool>>
                               \o (IF failed.error # NoError THEN failed.error
                                   ELSE <<"unknown_error">>)>>,
             requiresApproval |-> FALSE]

----------------------------------------------------------------------------
(* Calendar tools *)

(* the day clock = 0 stands for, in days since 1970-01-01: 2026-03-02 *)
EpochDay == DayNumber(2026, 3, 2) - DayNumber(1970, 1, 1)

(* new Date() *)
NewDateNow(now) == [nan |-> FALSE, t |-> (EpochDay + now) * 1440, s |-> 0]

(* new Date(text): a date-only ISO text is midnight UTC of that day *)
NewDate(text) ==
    IF Len(text) = 10
    THEN DateParse(text \o <<"T", "0", "0", ":", "0", "0", ":", "0", "0", "Z">>)
    ELSE DateParse(text)

(* anchorDateIso ? new Date(anchorDateIso) : new Date() *)
Anchor(now, anchorDateIso) ==
    IF IsString(anchorDateIso) /\ anchorDateIso.v # <<>>
    THEN NewDate(anchorDateIso.v) ELSE NewDateNow(now)

(* getUTCDay of a day number: 1970-01-01 was a Thursday *)
UTCDay(day) == (day + 4) % 7

(* rangeUtc: start and end in minutes since 1970; end stands for the last   *)
(* millisecond before it.  toISOString of an Invalid Date throws a         *)
(* RangeError, which is ok = FALSE here.                                   *)
rangeUtc(date, mode) ==
    IF date.nan THEN [ok |-> FALSE, error |-> <<"Invalid time value">>,
                      start |-> 0, end |-> 0]
    ELSE LET day == date.t \div 1440
             from == IF mode = Week THEN day - ((UTCDay(day) + 6) % 7) ELSE day
             to == from + (IF mode = Today THEN 1 ELSE 7)
         IN [ok |-> TRUE, error |-> NoError, start |-> from * 1440, end |-> to * 1440]

(* the rows ensureDemoGoogleCalendarSeed inserts: day offset, hour, minute, *)
(* duration, title, status and which of the two calendars                   *)
DemoEvents ==
    << [cal |-> 1, dayOffset |-> 0, h |-> 9, m |-> 30, durMin |-> 30,
        title |-> <<"Daily Standup">>, status |-> "confirmed"],
       [cal |-> 1, dayOffset |-> 0, h |-> 10, m |-> 0, durMin |-> 60,
        title |-> <<"Product Review">>, status |-> "confirmed"],
       [cal |-> 2, dayOffset |-> 0, h |-> 10, m |-> 30, durMin |-> 45,
        title |-> <<"Doctor Call">>, status |-> "tentative"],
       [cal |-> 1, dayOffset |-> 0, h |-> 13, m |-> 0, durMin |-> 30,
        title |-> <<"1:1 with Design">>, status |-> "confirmed"],
       [cal |-> 1, dayOffset |-> 0, h |-> 13, m |-> 35, durMin |-> 25,
        title |-> <<"Follow-up Sync">>, status |-> "confirmed"],
       [cal |-> 2, dayOffset |-> 0, h |-> 16, m |-> 0, durMin |-> 60,
        title |-> <<"Gym Block">>, status |-> "tentative"],
       [cal |-> 1, dayOffset |-> 1, h |-> 11, m |-> 0, durMin |-> 60,
        title |-> <<"Sprint Planning">>, status |-> "confirmed"],
       [cal |-> 1, dayOffset |-> 2, h |-> 14, m |-> 0, durMin |-> 60,
        title |-> <<"Client Demo">>, status |-> "confirmed"],
       [cal |-> 2, dayOffset |-> 4, h |-> 18, m |-> 0, durMin |-> 90,
        title |-> <<"Family Dinner">>, status |-> "confirmed"] >>

(* ensureDemoGoogleCalendarSeed after its `existing` check: two Google      *)
(* calendars, nine events relative to today, one audit row                 *)
InsertDemoSeed(db, now) ==
    LET c1 == Len(db.calendars) + 1
        c2 == Len(db.calendars) + 2
        d0 == (EpochDay + now) * 1440
        mk(k) == LET e == DemoEvents[k]
                     start == d0 + e.dayOffset * 1440 + e.h * 60 + e.m
                 IN [id |-> Len(db.events) + k,
                     calendarId |-> IF e.cal = 1 THEN c1 ELSE c2,
                     provider |-> "google",
                     title |-> e.title,
                     status |-> e.status,
                     startAt |-> [nan |-> FALSE, t |-> start, s |-> 0],
                     endAt |-> [nan |-> FALSE, t |-> start + e.durMin, s |-> 0],
                     createdAt |-> now]
        db1 == [db EXCEPT
                  !.calendars = @ \o <<[id |-> c1, provider |-> "google",
                                        name |-> "Google Work"],
                                       [id |-> c2, provider |-> "google",
                                        name |-> "Google Personal"]>>,
                  !.events = @ \o [k \in 1..Len(DemoEvents) |-> mk(k)]]
    IN writeAuditLog(db1, "calendar_seed_demo", "calendar", NoRef, "executed",
                     NoDetails, NULL)

(* ensureDemoGoogleCalendarSeed *)
ensureDemoGoogleCalendarSeed(db, now) ==
    IF Len(db.calendars) > 0 THEN db ELSE InsertDemoSeed(db, now)

(* ensureCalendarDataAvailable; connected: a Google account is connected *)
ensureCalendarDataAvailable(db, now, connected) ==
    IF connected THEN db
    ELSE IF Len(db.calendars) = 0 THEN ensureDemoGoogleCalendarSeed(db, now)
    ELSE db

(* orderBy(asc(startAt)): insertion of a row into rows sorted by startAt *)
RECURSIVE InsertByStart(_, _)
InsertByStart(rows, row) ==
    IF rows = <<>> THEN <<row>>
    ELSE IF NotAfter(rows[Len(rows)].startAt, row.startAt) THEN Append(rows, row)
    ELSE Append(InsertByStart(SubSeq(rows, 1, Len(rows) - 1), row), rows[Len(rows)])

RECURSIVE OrderByStart(_)
OrderByStart(rows) ==
    IF rows = <<>> THEN <<>>
    ELSE InsertByStart(OrderByStart(SubSeq(rows, 1, Len(rows) - 1)), rows[Len(rows)])

(* the select of listCalendarEvents: events of a calendar that start within *)
(* the range, by start                                                     *)
EventsInRange(db, range) ==
    LET covered(e) == /\ \E c \in 1..Len(db.calendars) : db.calendars[c].id = e.calendarId
                      /\ range.start <= e.startAt.t
                      /\ e.startAt.t < range.end
    IN OrderByStart(SelectSeq(db.events, covered))

(* listCalendarEvents *)
listCalendarEvents(db, now, mode, anchorDateIso, connected) ==
    LET db1 == ensureCalendarDataAvailable(db, now, connected)
        range == rangeUtc(Anchor(now, anchorDateIso), mode)
    IN IF ~range.ok THEN Throw(db1, range.error)
       ELSE Return(db1, EventsInRange(db1, range))

(* getCalendarSummary: of the summary its date (the day the range starts)   *)
(* and totalEvents are kept; the other figures are computed from the same   *)
(* rows and write nothing                                                  *)
getCalendarSummary(db, now, mode, anchorDateIso, connected) ==
    LET range == rangeUtc(Anchor(now, anchorDateIso), mode) IN
    IF ~range.ok THEN Throw(db, range.error)
    ELSE LET events == listCalendarEvents(db, now, mode, anchorDateIso, connected)
         IN Return(events.db, [kind |-> "summary", date |-> range.start \div 1440,
                               totalEvents |-> Len(events.value)])

(* Promise.all([listCalendarEvents, getCalendarConflicts]): the two calls   *)
(* run interleaved; with raced both pass the `existing` check of the seed  *)
(* before either inserts, and the demo rows are inserted twice             *)
ListEventsAndConflicts(db, now, mode, anchorDateIso, connected, raced) ==
    LET first == listCalendarEvents(db, now, mode, anchorDateIso, connected)
        seeded == first.db # db
        db1 == IF raced /\ seeded THEN InsertDemoSeed(first.db, now) ELSE first.db
        second == listCalendarEvents(db1, now, mode, anchorDateIso, connected)
    IN IF ~first.ok THEN Throw(db1, first.error)
       ELSE Return(db1, [kind |-> "events", date |-> 0,
                         totalEvents |-> Len(second.value)])

----------------------------------------------------------------------------
(* Context Builder (the Reader).  Text is a sequence of characters.         *)

UpperCase == <<"A", "B", "C", "D", "E", "F", "G", "H", "I", "J", "K", "L", "M", "N", "O", "P", "Q", "R", "S", "T", "U", "V", "W", "X", "Y", "Z">>

LowerCase == <<"a", "b", "c", "d", "e", "f", "g", "h", "i", "j", "k", "l", "m", "n", "o", "p", "q", "r", "s", "t", "u", "v", "w", "x", "y", "z">>

UpperLetters == {UpperCase[i] : i \in 1..Len(UpperCase)}

Letters == UpperLetters \cup {LowerCase[i] : i \in 1..Len(LowerCase)}

(* the lower-case letter of each upper-case letter *)
Lowered ==
    [c \in UpperLetters |-> LowerCase[CHOOSE i \in 1..Len(UpperCase) : UpperCase[i] = c]]

LowerChar(c) == IF c \in UpperLetters THEN Lowered[c] ELSE c

(* String.prototype.toLowerCase *)
toLowerCase(s) == [i \in 1..Len(s) |-> LowerChar(s[i])]

(* String.prototype.includes; /word/.test(s) for a word without operators *)
Includes(s, w) == \E i \in 1..(Len(s) - Len(w) + 1) : SubSeq(s, i, i + Len(w) - 1) = w

(* /a|b|c/.test(s) *)
IncludesAny(s, words) == \E w \in words : Includes(s, w)

(* s.slice(0, n) *)
Take(s, n) == SubSeq(s, 1, IF Len(s) < n THEN Len(s) ELSE n)

(* s.slice(-n) *)
TakeLast(s, n) == SubSeq(s, IF Len(s) > n THEN Len(s) - n + 1 ELSE 1, Len(s))

(* s.replace(/\s+/g, ' ') *)
Collapse(s) ==
    LET starts(i) == ~IsSpace(s[i]) \/ i = 1 \/ ~IsSpace(s[i - 1])
        kept == SelectSeq([i \in 1..Len(s) |-> i], starts)
    IN [k \in 1..Len(kept) |-> IF IsSpace(s[kept[k]]) THEN " " ELSE s[kept[k]]]

(* lines.join('\n') *)
RECURSIVE Join(_)
Join(lines) ==
    IF lines = <<>> THEN <<>>
    ELSE IF Len(lines) = 1 THEN lines[1]
    ELSE lines[1] \o <<"\n">> \o Join(Tail(lines))

(* a role as text *)
RoleText(role) ==
    CASE role = "user" -> <<"u", "s", "e", "r">>
      [] role = "system" -> <<"s", "y", "s", "t", "e", "m">>
      [] role = "assistant" -> <<"a", "s", "s", "i", "s", "t", "a", "n", "t">>

(* latestUserMessage, the index of the last message of role user, or 0 *)
RECURSIVE LastUser(_, _)
LastUser(messages, i) ==
    IF i = 0 THEN 0
    ELSE IF messages[i].role = "user" THEN i
    ELSE LastUser(messages, i - 1)

(* latestUserMessage *)
latestUserMessage(messages) ==
    LET i == LastUser(messages, Len(messages)) IN
    IF i > 0 THEN Trim(messages[i].content)
    ELSE IF Len(messages) > 0 THEN Trim(messages[Len(messages)].content)
    ELSE <<>>

(* summarizeConversation, one line of it *)
SummaryLine(m) == RoleText(m.role) \o <<":", " ">> \o Take(Trim(Collapse(m.content)), 140)

(* summarizeConversation *)
summarizeConversation(messages) ==
    LET recent == TakeLast(messages, 6) IN
    Take(Join([i \in 1..Len(recent) |-> SummaryLine(recent[i])]), 700)

CalendarWords == {<<"c", "a", "l", "e", "n", "d", "a", "r">>,
                  <<"a", "g", "e", "n", "d", "a">>,
                  <<"s", "c", "h", "e", "d", "u", "l", "e">>}

DraftWords == {<<"d", "r", "a", "f", "t", " ", "e", "m", "a", "i", "l">>,
               <<"c", "o", "m", "p", "o", "s", "e", " ", "e", "m", "a", "i", "l">>,
               <<"w", "r", "i", "t", "e", " ", "e", "m", "a", "i", "l">>}

SendWords == {<<"s", "e", "n", "d", " ", "e", "m", "a", "i", "l">>}

CreateWords == {<<"c", "r", "e", "a", "t", "e", " ", "e", "v", "e", "n", "t">>,
                <<"s", "c", "h", "e", "d", "u", "l", "e", " ", "m", "e", "e", "t", "i", "n", "g">>}

DeleteWords == {<<"d", "e", "l", "e", "t", "e">>,
                <<"r", "e", "m", "o", "v", "e">>,
                <<"c", "a", "n", "c", "e", "l">>}

(* IntentGuess, looking for the words of calendar_create first *)
IntentGuess_CreateFirst(lc) ==
    IF IncludesAny(lc, CreateWords) THEN "calendar_create"
    ELSE IF IncludesAny(lc, CalendarWords) THEN "calendar_query"
    ELSE IF IncludesAny(lc, DraftWords) THEN "email_draft"
    ELSE IF IncludesAny(lc, SendWords) THEN "email_send"
    ELSE IF IncludesAny(lc, DeleteWords) THEN "delete_action"
    ELSE "general_chat"

(* buildContextPack, the intent guessed from the lower-cased latest message *)
IntentGuess(lc) ==
    IF IncludesAny(lc, CalendarWords) THEN "calendar_query"
    ELSE IF IncludesAny(lc, DraftWords) THEN "email_draft"
    ELSE IF IncludesAny(lc, SendWords) THEN "email_send"
    ELSE IF IncludesAny(lc, CreateWords) THEN "calendar_create"
    ELSE IF IncludesAny(lc, DeleteWords) THEN "delete_action"
    ELSE "general_chat"

(* a JSON object, as its list of <<key, value>> pairs *)
Obj(pairs) == [t |-> "object", v |-> pairs]

(* buildContextPack, the pack around the latest user message *)
ContextPack(input, latest) ==
    [intentGuess |-> IntentGuess(toLowerCase(latest)),
     conversationSummary |-> summarizeConversation(input.messages),
     toolContext |-> [enabledTools |-> IF input.tools = Undef THEN Arr(<<>>)
                                       ELSE input.tools,
                      attachments |-> IF input.attachments = Undef THEN Arr(<<>>)
                                      ELSE input.attachments],
     constraints |-> [mode |-> input.mode,
                      channel |-> Coalesce(input.channel, "in_app"),
                      requiresLocalFirst |-> TRUE],
     userPrefs |-> IF input.userPrefs = Undef THEN Obj(<<>>) ELSE input.userPrefs,
     latestUserMessage |-> latest]

(* buildContextPack taking requiresLocalFirst from the day it is called on *)
buildContextPack_ByDay(input) ==
    [ContextPack(input, latestUserMessage(input.messages))
       EXCEPT !.constraints.requiresLocalFirst = (clock % 2 = 0)]

(* buildContextPack *)
buildContextPack(input) == ContextPack(input, latestUserMessage(input.messages))

(* The inputs of the chat route *)

Msg(role, content) == [role |-> role, content |-> content]

(* messages of a chat request: chatSchema asks for at least one message     *)
(* and content of at least one character                                   *)
Conversations ==
    { <<Msg("user", <<"A", "g", "e", "n", "d", "a">>)>>,
      <<Msg("user", <<"w", "e", "e", "k", "l", "y", " ", "a", "g", "e", "n", "d", "a", " ", "i", "t", "e", "m", "s">>)>>,
      <<Msg("user", <<"d", "r", "a", "f", "t", " ", "e", "m", "a", "i", "l", " ", "a", "@", "x", ".", "i", "o">>)>>,
      <<Msg("user", <<"s", "e", "n", "d", " ", "e", "m", "a", "i", "l">>)>>,
      <<Msg("user", <<"c", "r", "e", "a", "t", "e", " ", "e", "v", "e", "n", "t">>)>>,
      <<Msg("user", <<"S", "c", "h", "e", "d", "u", "l", "e", " ", "m", "e", "e", "t", "i", "n", "g">>)>>,
      <<Msg("user", <<"c", "a", "n", "c", "e", "l", " ", "i", "t">>)>>,
      <<Msg("user", <<" ", "h", "e", "l", "l", "o", " ">>)>>,
      <<Msg("user", <<" ", "h", "e", "l", "l", "o", " ">>), Msg("assistant", <<"A", "g", "e", "n", "d", "a">>)>>,
      <<Msg("user", <<"s", "e", "n", "d", " ", "e", "m", "a", "i", "l", " ", "t", "o", " ", "a", "@", "x", ".", "i", "o", " ", "s", "u", "b", "j", "e", "c", "t", ":", " ", "H", "i", " ", "b", "o", "d", "y", ":", " ", "O", "k">>)>>,
      <<Msg("user", <<"c", "r", "e", "a", "t", "e", " ", "e", "v", "e", "n", "t", " ", "t", "i", "t", "l", "e", ":", " ", "S", "y", "n", "c", " ", "o", "n", " ", "2", "0", "2", "6", "-", "0", "3", "-", "0", "5", " ", "a", "t", " ", "1", "0", ":", "0", "0", " ", "t", "o", " ", "1", "0", ":", "3", "0">>)>>,
      <<Msg("system", <<"b", "e", " ", "b", "r", "i", "e", "f">>), Msg("assistant", <<"s", "e", "n", "d", " ", "e", "m", "a", "i", "l">>)>> }

(* the rest of a chat request: mode, channel, tools, attachments, userPrefs *)
ChatOptions ==
    { [mode |-> "quick", channel |-> NULL, tools |-> Undef, attachments |-> Undef,
       userPrefs |-> Undef],
      [mode |-> "deep", channel |-> NULL, tools |-> Undef, attachments |-> Undef,
       userPrefs |-> Undef],
      [mode |-> "deep", channel |-> "telegram",
       tools |-> Arr(<<Str(<<"c", "a", "l", "e", "n", "d", "a", "r", ".", "s", "u", "m", "m", "a", "r", "y">>)>>),
       attachments |-> Arr(<<>>),
       userPrefs |-> Obj(<<<<"tone", Str(<<"b", "e", " ", "b", "r", "i", "e", "f">>)>>>>)] }

ContextInputs ==
    {[messages |-> m, mode |-> o.mode, channel |-> o.channel, tools |-> o.tools,
      attachments |-> o.attachments, userPrefs |-> o.userPrefs] :
       m \in Conversations, o \in ChatOptions}

----------------------------------------------------------------------------
(* The Thinker: the patterns the heuristic planner reads its arguments      *)
(* with.  White space in the texts of the model is the space character;     *)
(* the line feed is matched where a pattern names it.                       *)

IsLetter(c) == c \in Letters

(* \w *)
IsWordChar(c) == IsLetter(c) \/ IsDigit(c) \/ c = "_"

(* the character at position i, "" outside the text *)
CharAt(text, i) == IF i \in 1..Len(text) THEN text[i] ELSE ""

(* \b between positions i - 1 and i *)
WordBoundary(text, i) == IsWordChar(CharAt(text, i - 1)) # IsWordChar(CharAt(text, i))

(* the word at position i, whatever the case of the text *)
WordAt(text, i, w) ==
    /\ i >= 1 /\ i + Len(w) - 1 <= Len(text)
    /\ \A k \in 1..Len(w) : LowerChar(text[i + k - 1]) = w[k]

(* \s* from position i on: the position of the first character after it *)
RECURSIVE SkipSpaces(_, _)
SkipSpaces(text, i) ==
    IF i <= Len(text) /\ IsSpace(text[i]) THEN SkipSpaces(text, i + 1) ELSE i

First(positions) == CHOOSE i \in positions : \A j \in positions : i <= j

(* 20\d{2}-\d{2}-\d{2}\b at position i *)
DateAt(text, i) ==
    /\ i >= 1 /\ i + 9 <= Len(text)
    /\ text[i] = "2" /\ text[i + 1] = "0"
    /\ \A k \in {2, 3, 5, 6, 8, 9} : IsDigit(text[i + k])
    /\ text[i + 4] = "-" /\ text[i + 7] = "-"
    /\ WordBoundary(text, i + 10)

(* text.match(/\b(20\d{2}-\d{2}-\d{2})\b/)?.[1] *)
FirstDate(text) ==
    LET hits == {i \in 1..Len(text) : DateAt(text, i) /\ WordBoundary(text, i)} IN
    IF hits = {} THEN Undef ELSE Str(SubSeq(text, First(hits), First(hits) + 9))

(* extractAnchorDate *)
extractAnchorDate(text) == FirstDate(text)

(* [A-Z0-9._%+-] and [A-Z0-9.-], whatever the case *)
IsLocalChar(c) == IsLetter(c) \/ IsDigit(c) \/ c \in {".", "_", "%", "+", "-"}

IsDomainChar(c) == IsLetter(c) \/ IsDigit(c) \/ c \in {".", "-"}

(* the end of the longest run of characters of a class from position i on   *)
(* (i - 1 when there is none), and the start of the longest run ending at i *)
RECURSIVE LettersEnd(_, _)
LettersEnd(text, i) ==
    IF i <= Len(text) /\ IsLetter(text[i]) THEN LettersEnd(text, i + 1) ELSE i - 1

RECURSIVE DomainEnd(_, _)
DomainEnd(text, i) ==
    IF i <= Len(text) /\ IsDomainChar(text[i]) THEN DomainEnd(text, i + 1) ELSE i - 1

RECURSIVE LocalStart(_, _, _)
LocalStart(text, i, from) ==
    IF i >= from /\ IsLocalChar(text[i]) THEN LocalStart(text, i - 1, from) ELSE i + 1

(* [A-Z0-9.-]+\.[A-Z]{2,} from position i on: the end of the match, 0 when  *)
(* there is none.  The first part takes all it can and gives back to the    *)
(* last dot that has two letters after it.                                  *)
EmailDomainEnd(text, i) ==
    LET dots == {k \in (i + 1)..DomainEnd(text, i) :
                   text[k] = "." /\ LettersEnd(text, k + 1) >= k + 2}
    IN IF dots = {} THEN 0
       ELSE LettersEnd(text, (CHOOSE k \in dots : \A j \in dots : j <= k) + 1)

(* text.match(/[A-Z0-9._%+-]+@[A-Z0-9.-]+\.[A-Z]{2,}/gi) from position from *)
(* on: the matches, left to right, none overlapping another                 *)
RECURSIVE EmailMatches(_, _)
EmailMatches(text, from) ==
    LET hits == {i \in from..Len(text) :
                   /\ text[i] = "@"
                   /\ LocalStart(text, i - 1, from) < i
                   /\ EmailDomainEnd(text, i + 1) > 0}
    IN IF hits = {} THEN <<>>
       ELSE LET at == First(hits)
                end == EmailDomainEnd(text, at + 1)
            IN <<SubSeq(text, LocalStart(text, at - 1, from), end)>>
               \o EmailMatches(text, end + 1)

(* extractEmails: the addresses in lower case, each once *)
extractEmails(text) ==
    LET found == EmailMatches(text, 1) IN
    FirstOccurrences([i \in 1..Len(found) |-> Str(toLowerCase(found[i]))])

(* ([01]?\d|2[0-3]):([0-5]\d)\b at position i: the length of the match, 0   *)
(* when there is none                                                      *)
ClockAt(text, i) ==
    LET one == /\ IsDigit(CharAt(text, i)) /\ CharAt(text, i + 1) = ":"
               /\ CharAt(text, i + 2) \in {"0", "1", "2", "3", "4", "5"}
               /\ IsDigit(CharAt(text, i + 3))
               /\ WordBoundary(text, i + 4)
        two == /\ \/ CharAt(text, i) \in {"0", "1"} /\ IsDigit(CharAt(text, i + 1))
                  \/ CharAt(text, i) = "2" /\ CharAt(text, i + 1) \in {"0", "1", "2", "3"}
               /\ CharAt(text, i + 2) = ":"
               /\ CharAt(text, i + 3) \in {"0", "1", "2", "3", "4", "5"}
               /\ IsDigit(CharAt(text, i + 4))
               /\ WordBoundary(text, i + 5)
    IN IF two THEN 5 ELSE IF one THEN 4 ELSE 0

(* text.matchAll(/\b([01]?\d|2[0-3]):([0-5]\d)\b/g) from position from on *)
RECURSIVE ClockMatches(_, _)
ClockMatches(text, from) ==
    LET hits == {i \in from..Len(text) : ClockAt(text, i) > 0 /\ WordBoundary(text, i)}
    IN IF hits = {} THEN <<>>
       ELSE LET at == First(hits)
                end == at + ClockAt(text, at) - 1
            IN <<SubSeq(text, at, end)>> \o ClockMatches(text, end + 1)

(* the positions where a word stands, whatever the case *)
Occurrences(text, w) == {i \in 1..Len(text) : WordAt(text, i, w)}

(* word\s*: at position i: the position of the colon, 0 when there is none *)
ColonAfter(text, i, w) ==
    IF WordAt(text, i, w) /\ CharAt(text, SkipSpaces(text, i + Len(w))) = ":"
    THEN SkipSpaces(text, i + Len(w)) ELSE 0

(* (?=\s+\bbody\s*:) at position e *)
BodyAhead(text, e) ==
    /\ SkipSpaces(text, e) > e
    /\ ColonAfter(text, SkipSpaces(text, e), <<"b", "o", "d", "y">>) > 0

(* the first position from k on where one of the lookaheads holds; the end  *)
(* of the text is one of them                                              *)
RECURSIVE SubjectEnd(_, _)
SubjectEnd(text, e) ==
    IF e > Len(text) \/ text[e] = "\n" \/ BodyAhead(text, e) THEN e
    ELSE SubjectEnd(text, e + 1)

(* word\s+"([^"]+)" at position i, for either quote: the capture, or <<>>   *)
Quoted(text, i, w, quote) ==
    LET q == SkipSpaces(text, i + Len(w))
        closing == {e \in (q + 2)..Len(text) : text[e] = quote}
    IN IF WordAt(text, i, w) /\ q > i + Len(w) /\ CharAt(text, q) = quote
          /\ CharAt(text, q + 1) # quote /\ closing # {}
       THEN SubSeq(text, q + 1, First(closing) - 1) ELSE <<>>

(* parseEmailSendArgs, the capture of subjectMatch; '' when none matched *)
SubjectOf(text) ==
    LET word == <<"s", "u", "b", "j", "e", "c", "t">>
        colons == {i \in Occurrences(text, word) : ColonAfter(text, i, word) > 0}
        double == {i \in Occurrences(text, word) : Quoted(text, i, word, "\"") # <<>>}
        single == {i \in Occurrences(text, word) : Quoted(text, i, word, "'") # <<>>}
    IN IF colons # {}
       THEN LET k == SkipSpaces(text, ColonAfter(text, First(colons), word) + 1)
            IN SubSeq(text, k, SubjectEnd(text, k) - 1)
       ELSE IF double # {} THEN Quoted(text, First(double), word, "\"")
       ELSE IF single # {} THEN Quoted(text, First(single), word, "'")
       ELSE <<>>

(* /\bbody\s*:\s*([\s\S]+)/i: the capture, or <<>> when there is no match   *)
BodyLine(text) ==
    LET word == <<"b", "o", "d", "y">>
        hits == {i \in Occurrences(text, word) :
                   /\ WordBoundary(text, i)
                   /\ ColonAfter(text, i, word) \in 1..(Len(text) - 1)}
    IN IF hits = {} THEN <<>>
       ELSE LET colon == ColonAfter(text, First(hits), word)
                k == SkipSpaces(text, colon + 1)
            IN IF k <= Len(text) THEN SubSeq(text, k, Len(text))
               ELSE SubSeq(text, Len(text), Len(text))

(* /(?:^|\n)body\s*:\s*\n([\s\S]+)/i: the capture, or <<>> *)
BodySection(text) ==
    LET word == <<"b", "o", "d", "y">>
        feed(i) == SkipSpaces(text, ColonAfter(text, i, word) + 1)
        hits == {i \in Occurrences(text, word) :
                   /\ i = 1 \/ text[i - 1] = "\n"
                   /\ ColonAfter(text, i, word) > 0
                   /\ CharAt(text, feed(i)) = "\n"
                   /\ feed(i) < Len(text)}
    IN IF hits = {} THEN <<>>
       ELSE SubSeq(text, feed(First(hits)) + 1, Len(text))

StartsWith(s, w) == Len(w) <= Len(s) /\ SubSeq(s, 1, Len(w)) = w

(* parseEmailSendArgs, the body, given the subject *)
BodyOf(text, subject) ==
    LET line == Trim(BodyLine(text)) IN
    IF BodySection(text) # <<>> THEN Trim(BodySection(text))
    ELSE IF BodyLine(text) # <<>>
    THEN (IF subject # <<>> /\ StartsWith(toLowerCase(line), toLowerCase(subject))
          THEN Trim(SubSeq(line, Len(subject) + 1, Len(line)))
          ELSE line)
    ELSE <<>>

(* parseEmailSendArgs.  requestedBy: 'local-user' is the value every reader *)
(* of the args falls back to, and nothing reads source: 'chat'; both are    *)
(* left out of the args here.                                              *)
parseEmailSendArgs(text) ==
    [NoArgs EXCEPT !.to = Arr(extractEmails(text)),
                   !.subject = Str(Trim(SubjectOf(text))),
                   !.body = Str(BodyOf(text, Trim(SubjectOf(text))))]

(* (?=\s+\bon\s+20\d{2}-\d{2}-\d{2}\b) and (?=\s+\bat\s+\d{1,2}:\d{2}\b) at *)
(* position e                                                              *)
OnDateAhead(text, e) ==
    LET q == SkipSpaces(text, e) IN
    /\ q > e /\ WordAt(text, q, <<"o", "n">>)
    /\ SkipSpaces(text, q + 2) > q + 2
    /\ DateAt(text, SkipSpaces(text, q + 2))

AtClockAhead(text, e) ==
    LET q == SkipSpaces(text, e)
        r == SkipSpaces(text, q + 2)
        colon == IF CharAt(text, r + 1) = ":" THEN r + 1 ELSE r + 2
    IN /\ q > e /\ WordAt(text, q, <<"a", "t">>)
       /\ r > q + 2
       /\ \A k \in r..(colon - 1) : IsDigit(CharAt(text, k))
       /\ CharAt(text, colon) = ":"
       /\ IsDigit(CharAt(text, colon + 1)) /\ IsDigit(CharAt(text, colon + 2))
       /\ WordBoundary(text, colon + 3)

RECURSIVE TitleEnd(_, _)
TitleEnd(text, e) ==
    IF e > Len(text) \/ text[e] = "\n" \/ OnDateAhead(text, e) \/ AtClockAhead(text, e)
    THEN e
    ELSE TitleEnd(text, e + 1)

(* \s+(?:on|at)\s at position e *)
OnOrAtAhead(text, e) ==
    LET q == SkipSpaces(text, e) IN
    /\ q > e
    /\ WordAt(text, q, <<"o", "n">>) \/ WordAt(text, q, <<"a", "t">>)
    /\ IsSpace(CharAt(text, q + 2))

(* (?:create|schedule)\s+(?:an?\s+)?(?:event|meeting)\s+ at position i: the *)
(* position after it, 0 when it does not match.  Runs of spaces are taken   *)
(* whole.                                                                   *)
EventPhraseEnd(text, i) ==
    LET verb == IF WordAt(text, i, <<"c", "r", "e", "a", "t", "e">>) THEN 6
                ELSE IF WordAt(text, i, <<"s", "c", "h", "e", "d", "u", "l", "e">>) THEN 8 ELSE 0
        a == SkipSpaces(text, i + verb)
        article == IF WordAt(text, a, <<"a", "n">>) /\ IsSpace(CharAt(text, a + 2)) THEN 2
                   ELSE IF WordAt(text, a, <<"a">>) /\ IsSpace(CharAt(text, a + 1)) THEN 1
                   ELSE 0
        n == SkipSpaces(text, a + article)
        noun == IF WordAt(text, n, <<"e", "v", "e", "n", "t">>) THEN 5
                ELSE IF WordAt(text, n, <<"m", "e", "e", "t", "i", "n", "g">>) THEN 7 ELSE 0
        c == SkipSpaces(text, n + noun)
    IN IF verb > 0 /\ a > i + verb /\ noun > 0 /\ c > n + noun THEN c ELSE 0

(* (.+?)\s+(?:on|at)\s from position c on: the end of the capture, 0 when   *)
(* a line feed or the end of the text comes first                           *)
RECURSIVE PhraseTitleEnd(_, _)
PhraseTitleEnd(text, e) ==
    IF e > Len(text) \/ text[e - 1] = "\n" THEN 0
    ELSE IF OnOrAtAhead(text, e) THEN e - 1
    ELSE PhraseTitleEnd(text, e + 1)

(* parseCalendarCreateArgs, the capture of titleMatch; '' when none matched *)
TitleOf(text) ==
    LET word == <<"t", "i", "t", "l", "e">>
        colons == {i \in Occurrences(text, word) : ColonAfter(text, i, word) > 0}
        phrases == {i \in 1..Len(text) :
                      /\ EventPhraseEnd(text, i) \in 1..Len(text)
                      /\ PhraseTitleEnd(text, EventPhraseEnd(text, i) + 1) > 0}
    IN IF colons # {}
       THEN LET k == SkipSpaces(text, ColonAfter(text, First(colons), word) + 1)
            IN SubSeq(text, k, TitleEnd(text, k) - 1)
       ELSE IF phrases # {}
       THEN LET c == EventPhraseEnd(text, First(phrases))
            IN SubSeq(text, c, PhraseTitleEnd(text, c + 1))
       ELSE <<>>

(* parseCalendarCreateArgs; requestedBy and source as in parseEmailSendArgs *)
parseCalendarCreateArgs(text) ==
    LET times == ClockMatches(text, 1)
        date == FirstDate(text)
    IN [NoArgs EXCEPT !.eventTitle = Str(Trim(TitleOf(text))),
                      !.startDate = IF date = Undef THEN EmptyText ELSE date,
                      !.startTime = IF Len(times) >= 1 THEN Str(times[1]) ELSE EmptyText,
                      !.endTime = IF Len(times) >= 2 THEN Str(times[2]) ELSE EmptyText]

(* /list|show events|what do i have|agenda items/ *)
ListWords == {<<"l", "i", "s", "t">>, <<"s", "h", "o", "w", " ", "e", "v", "e", "n", "t", "s">>, <<"w", "h", "a", "t", " ", "d", "o", " ", "i", " ", "h", "a", "v", "e">>, <<"a", "g", "e", "n", "d", "a", " ", "i", "t", "e", "m", "s">>}

(* a tool call as planFromContext writes it down; a plan has at most one   *)
HeuristicCall(tool, args, sideEffect) ==
    [id |-> 1, tool |-> tool, args |-> args, sideEffect |-> sideEffect]

ExecutionPlan(intent, toolCalls, riskLevel) ==
    [intent |-> intent, toolCalls |-> toolCalls, riskLevel |-> riskLevel]

(* planFromContext.  steps and artifacts are fixed texts per branch that    *)
(* nothing reads; requestedBy: 'local-user' of the draft arguments is the   *)
(* value generateDraftFromPrompt falls back to and is left out.             *)
planFromContext(context) ==
    LET text == toLowerCase(context.latestUserMessage)
        anchorDate == extractAnchorDate(context.latestUserMessage)
        mode == IF Includes(text, <<"w", "e", "e", "k">>) THEN Week ELSE Today
        wantsList == IncludesAny(text, ListWords)
    IN
    IF context.intentGuess = "calendar_query"
    THEN ExecutionPlan(IF wantsList THEN "calendar_events" ELSE "calendar_summary",
              <<HeuristicCall(IF wantsList THEN "calendar.events" ELSE "calendar.summary",
                              [NoArgs EXCEPT !.mode = mode, !.anchorDate = anchorDate],
                              FALSE)>>,
              "low")
    ELSE IF context.intentGuess = "email_draft"
    THEN ExecutionPlan("email_draft",
              <<HeuristicCall("email.draft.generate",
                              [NoArgs EXCEPT
                                 !.to = Arr(extractEmails(context.latestUserMessage)),
                                 !.prompt = Str(context.latestUserMessage)],
                              TRUE)>>,
              "medium")
    ELSE IF context.intentGuess = "email_send"
    THEN ExecutionPlan("email_send",
              <<HeuristicCall("email.send",
                              parseEmailSendArgs(context.latestUserMessage), TRUE)>>,
              "high")
    ELSE IF context.intentGuess = "calendar_create"
    THEN ExecutionPlan("calendar_create",
              <<HeuristicCall("calendar.event.create",
                              parseCalendarCreateArgs(context.latestUserMessage), TRUE)>>,
              "high")
    ELSE IF context.intentGuess = "delete_action"
    THEN ExecutionPlan("delete_action", <<HeuristicCall("delete.resource", NoArgs, TRUE)>>, "high")
    ELSE ExecutionPlan(context.intentGuess, <<>>,
              IF context.constraints.mode = "deep" THEN "medium" ELSE "low")

(* What the completion service may give the planner: no answer (the call   *)
(* throws), an answer without a JSON object, a JSON text that does not      *)
(* parse, an object plannerSchema refuses, or an object it accepts, read    *)
(* here as the fields the plan is built from.                               *)
NoReply == [answer |-> "none", intent |-> "none", toolCalls |-> <<>>, riskLevel |-> "low"]

PlanReply(intent, rawCalls, riskLevel) ==
    [answer |-> "plan", intent |-> intent, toolCalls |-> rawCalls, riskLevel |-> riskLevel]

FailedReplies ==
    {[NoReply EXCEPT !.answer = a] : a \in {"none", "prose", "broken_json", "invalid_plan"}}

NoPlan == ExecutionPlan("none", <<>>, "none")

(* planWithLlm: NoPlan stands for null *)
planWithLlm(context, reply) ==
    IF reply.answer = "plan"
    THEN ExecutionPlan(reply.intent, BuildCalls(reply.toolCalls, 1), reply.riskLevel)
    ELSE NoPlan

(* runMultiAgentOrchestration, the Thinker: the plan and where it is from   *)
ThinkerPlan(input, context, reply) ==
    LET llmPlanResult == IF input.mode = "deep" THEN planWithLlm(context, reply)
                         ELSE NoPlan
    IN IF llmPlanResult # NoPlan
       THEN [plan |-> llmPlanResult, plannerSource |-> "llm",
             asked |-> TRUE, answer |-> reply.answer]
       ELSE [plan |-> planFromContext(context),
             plannerSource |-> IF input.mode = "deep" THEN "heuristic_fallback"
                               ELSE "heuristic",
             asked |-> input.mode = "deep", answer |-> reply.answer]

----------------------------------------------------------------------------
(* Orchestration store and the run.  A run is carried as one record: the    *)
(* database, the orchestration_runs row of the run, and the rows the run    *)
(* appends to agent_traces, tool_execution_logs and judge_decisions.        *)

(* id('maoe') of the run at hand *)
TraceId == 1

(* the orchestration_runs row keeps status and error_details; `written` is  *)
(* the list of the statuses the row was given, oldest first                 *)
NewRun(db) == [db |-> db,
               run |-> [status |-> "none", errorDetails |-> NULL, written |-> <<>>],
               trace |-> <<>>, logs |-> <<>>, decisions |-> <<>>]

(* createOrchestrationRun *)
createOrchestrationRun(st, status) ==
    [st EXCEPT !.run = [status |-> status, errorDetails |-> NULL,
                        written |-> <<status>>]]

(* updateOrchestrationRun *)
updateOrchestrationRun(st, status, errorDetails) ==
    [st EXCEPT !.run = [status |-> status, errorDetails |-> errorDetails,
                        written |-> Append(@.written, status)]]

(* saveJudgeDecision *)
saveJudgeDecision(st, stage, decision) ==
    [st EXCEPT !.decisions = Append(@, [stage |-> stage, decision |-> decision])]

(* appendAgentTrace *)
appendAgentTrace(st, agent, status, details, errorDetails) ==
    [st EXCEPT !.trace = Append(@, [agent |-> agent, status |-> status,
                                    details |-> details,
                                    errorDetails |-> errorDetails])]

(* logToolExecution *)
logToolExecution(st, toolCall, status, result, errorDetails) ==
    [st EXCEPT !.logs = Append(@, [toolCallId |-> toolCall.id,
                                   tool |-> toolCall.tool,
                                   args |-> toolCall.args,
                                   status |-> status,
                                   result |-> result,
                                   errorDetails |-> errorDetails])]

(* `maoe_${phase}` *)
MaoeType(agentPhase) ==
    CASE agentPhase = "run" -> "maoe_run"
      [] agentPhase = "reader" -> "maoe_reader"
      [] agentPhase = "thinker" -> "maoe_thinker"
      [] agentPhase = "judge" -> "maoe_judge"
      [] agentPhase = "tool_executor" -> "maoe_tool_executor"
      [] agentPhase = "responder" -> "maoe_responder"

(* audit: one audit_logs row, then one agent_traces row *)
audit(st, agentPhase, status, details, errorDetails) ==
    appendAgentTrace(
      [st EXCEPT !.db = writeAuditLog(@, MaoeType(agentPhase), "conversation",
                                      TraceId, status, details, errorDetails)],
      agentPhase, status, details, errorDetails)

(* audit when the insert into agent_traces throws: the audit_logs row is    *)
(* written, the trace row is not                                            *)
auditInterrupted(st, agentPhase, status, details, errorDetails) ==
    [st EXCEPT !.db = writeAuditLog(@, MaoeType(agentPhase), "conversation",
                                    TraceId, status, details, errorDetails)]

(* the error a failing insert throws *)
StoreFault == <<"SQLITE_BUSY">>

(* error.message of a thrown error, as the text audit rows and logs keep *)
MessageOf(error) == error[1]

NoData == [kind |-> "none"]

NoResult == [toolCallId |-> 0, tool |-> "none", ok |-> TRUE, error |-> NoError,
             data |-> NoData]

Result(toolCall, data) ==
    [toolCallId |-> toolCall.id, tool |-> toolCall.tool, ok |-> TRUE,
     error |-> NoError, data |-> data]

Failure(toolCall, error) ==
    [toolCallId |-> toolCall.id, tool |-> toolCall.tool, ok |-> FALSE,
     error |-> error, data |-> NoData]

(* the name a tool call is traced under while its approval is prepared *)
ApprovalPrepare(tool) ==
    IF tool = "email.send" THEN "email.send.approval_prepare"
    ELSE "calendar.event.create.approval_prepare"

ToolDetails(name, toolCall, preparedOnly) ==
    [tool |-> name, toolCallId |-> toolCall.id, preparedOnly |-> preparedOnly]

(* (typeof args.requestedBy === 'string' && args.requestedBy) || 'local-user' *)
RequestedByOf(args) ==
    IF IsString(args.requestedBy) /\ args.requestedBy.v # <<>>
    THEN args.requestedBy.v ELSE "local-user"

(* prepareApprovalArtifacts, the loop from tool call i on *)
RECURSIVE PrepareLoop(_, _, _, _, _)
PrepareLoop(st, now, toolCalls, i, results) ==
    IF i > Len(toolCalls) THEN [st |-> st, results |-> results]
    ELSE
      LET toolCall == toolCalls[i] IN
      IF toolCall.tool \notin {"email.send", "calendar.event.create"}
      THEN PrepareLoop(st, now, toolCalls, i + 1, results)
      ELSE
        LET name == ApprovalPrepare(toolCall.tool)
            st1 == audit(st, "tool_executor", "prepared",
                         ToolDetails(name, toolCall, FALSE), NULL)
            st2 == logToolExecution(st1, toolCall, "prepared", NoResult, NULL)
            approval == prepareAction(st2.db, now,
                           [actionType |-> toolCall.tool,
                            targetType |-> IF toolCall.tool = "email.send"
                                           THEN "email_send_request"
                                           ELSE "calendar_event_request",
                            targetRef |-> NoRef,
                            payload |-> toolCall.args,
                            requestedBy |-> RequestedByOf(toolCall.args)])
            st3 == [st2 EXCEPT !.db = approval.db]
            result == Result(toolCall, [kind |-> "approval",
                                        approvalAction |-> approval.value,
                                        preparedOnly |-> TRUE])
            failure == Failure(toolCall, approval.error)
            st4 == IF approval.ok
                   THEN audit(logToolExecution(st3, toolCall, "executed", result, NULL),
                              "tool_executor", "executed",
                              ToolDetails(name, toolCall, TRUE), NULL)
                   ELSE audit(logToolExecution(st3, toolCall, "failed", failure,
                                               MessageOf(approval.error)),
                              "tool_executor", "failed",
                              ToolDetails(name, toolCall, FALSE),
                              MessageOf(approval.error))
        IN PrepareLoop(st4, now, toolCalls, i + 1,
                       Append(results, IF approval.ok THEN result ELSE failure))

(* prepareApprovalArtifacts, stopping after the first tool call of the plan *)
prepareApprovalArtifacts_FirstOnly(st, now, toolCalls) ==
    PrepareLoop(st, now, SubSeq(toolCalls, 1, 1), 1, <<>>)

(* prepareApprovalArtifacts *)
prepareApprovalArtifacts(st, now, toolCalls) == PrepareLoop(st, now, toolCalls, 1, <<>>)

(* executeToolCalls, the body of its try block up to the push of the result *)
(* env: whether a Google account is connected, and whether the two reads    *)
(* of calendar.events race on the demo seed                                *)
CallTool(db, now, toolCall, env) ==
    LET a == toolCall.args IN
    IF toolCall.tool = "calendar.summary"
    THEN getCalendarSummary(db, now, a.mode, a.anchorDate, env.connected)
    ELSE IF toolCall.tool = "calendar.events"
    THEN ListEventsAndConflicts(db, now, a.mode, a.anchorDate, env.connected, env.raced)
    ELSE IF toolCall.tool = "email.draft.generate"
    THEN LET r == createDraftEmail(db, now,
                     [accountId |-> IF env.connected THEN 1 ELSE NoRef,
                      to |-> a.to,
                      requestedBy |-> IF IsString(a.requestedBy)
                                      THEN a.requestedBy.v ELSE NULL])
         IN Return(r.db, [kind |-> "draft", draft |-> r.value.draft,
                          approvalAction |-> r.value.approvalAction])
    ELSE Return(db, NoData)

(* ExecuteRecord, tracing every call as executed once the tool has returned *)
(* or thrown                                                               *)
ExecuteRecord_TracedExecuted(st2, toolCall, details, r) ==
    LET st3 == [st2 EXCEPT !.db = r.db]
        pushed == IF ~r.ok THEN Failure(toolCall, r.error) ELSE Result(toolCall, r.value)
        st4 == audit(logToolExecution(st3, toolCall,
                                      IF pushed.ok THEN "executed" ELSE "failed",
                                      pushed,
                                      IF pushed.ok THEN NULL ELSE MessageOf(pushed.error)),
                     "tool_executor", "executed", details, NULL)
    IN [st |-> st4, pushed |-> pushed]

(* executeToolCalls, one round of the loop after the tool has answered r:   *)
(* the result pushed, the log row and the trace                            *)
ExecuteRecord(st2, toolCall, details, r) ==
    LET st3 == [st2 EXCEPT !.db = r.db]
        implemented == toolCall.tool \in {"calendar.summary", "calendar.events",
                                          "email.draft.generate"}
        pushed == IF ~r.ok THEN Failure(toolCall, r.error)
                  ELSE IF implemented THEN Result(toolCall, r.value)
                  ELSE Failure(toolCall, <<"tool_not_implemented">>)
        st4 == IF ~r.ok
               THEN audit(logToolExecution(st3, toolCall, "failed", pushed,
                                           MessageOf(r.error)),
                          "tool_executor", "failed", details, MessageOf(r.error))
               ELSE audit(logToolExecution(st3, toolCall,
                                           IF pushed.ok THEN "executed" ELSE "failed",
                                           pushed,
                                           IF pushed.ok THEN NULL
                                           ELSE MessageOf(pushed.error)),
                          "tool_executor", "executed", details, NULL)
    IN [st |-> st4, pushed |-> pushed]

(* executeToolCalls, one round of the loop from the call of the tool on *)
ExecuteCall(st2, now, toolCall, details, env) ==
    ExecuteRecord(st2, toolCall, details, CallTool(st2.db, now, toolCall, env))

(* executeToolCalls, the loop from tool call i on *)
RECURSIVE ExecuteLoop(_, _, _, _, _, _)
(* executeToolCalls, the loop after round i *)
ExecuteRest(round, now, toolCalls, i, results, env) ==
    ExecuteLoop(round.st, now, toolCalls, i + 1, Append(results, round.pushed), env)

ExecuteLoop(st, now, toolCalls, i, results, env) ==
    IF i > Len(toolCalls) THEN [st |-> st, results |-> results]
    ELSE
      LET toolCall == toolCalls[i]
          details == ToolDetails(toolCall.tool, toolCall, FALSE)
          st1 == audit(st, "tool_executor", "prepared", details, NULL)
          st2 == logToolExecution(st1, toolCall, "prepared", NoResult, NULL)
      IN ExecuteRest(ExecuteCall(st2, now, toolCall, details, env),
                     now, toolCalls, i, results, env)

(* executeToolCalls, giving up at the first tool call that fails *)
executeToolCalls_StopsAtFailure(st, now, toolCalls, env) ==
    LET all == ExecuteLoop(st, now, toolCalls, 1, <<>>, env)
        k == FirstFailed(all.results)
    IN IF k = 0 THEN all
       ELSE ExecuteLoop(st, now, SubSeq(toolCalls, 1, k), 1, <<>>, env)

(* executeToolCalls *)
executeToolCalls(st, now, toolCalls, env) ==
    ExecuteLoop(st, now, toolCalls, 1, <<>>, env)

(* RunTools, handing the plan to executeToolCalls under requires_approval   *)
(* as well                                                                 *)
RunTools_ExecutesUnderApproval(st, now, plan, firstDecision, env) ==
    IF firstDecision.status \in {"proceed", "requires_approval"}
    THEN (IF Len(plan.toolCalls) > 0
          THEN executeToolCalls(st, now, plan.toolCalls, env)
          ELSE [st |-> st, results |-> <<>>])
    ELSE [st |-> st, results |-> <<>>]

(* RunTools, preparing approvals under every decision but proceed *)
RunTools_PreparesUnlessProceed(st, now, plan, firstDecision, env) ==
    IF firstDecision.status = "proceed"
    THEN executeToolCalls(st, now, plan.toolCalls, env)
    ELSE prepareApprovalArtifacts(st, now, plan.toolCalls)

(* runMultiAgentOrchestration, the choice of what the Tool Executor does    *)
(* with the plan                                                           *)
RunTools(st, now, plan, firstDecision, env) ==
    IF firstDecision.status = "proceed"
    THEN (IF Len(plan.toolCalls) > 0
          THEN executeToolCalls(st, now, plan.toolCalls, env)
          ELSE [st |-> st, results |-> <<>>])
    ELSE IF firstDecision.status = "requires_approval"
    THEN prepareApprovalArtifacts(st, now, plan.toolCalls)
    ELSE [st |-> st, results |-> <<>>]

(* buildCards: the types of the cards, in order *)
RECURSIVE ResultCards(_)
ResultCards(toolResults) ==
    IF toolResults = <<>> THEN <<>>
    ELSE LET result == Head(toolResults)
             cards == IF ~result.ok THEN <<>>
                      ELSE IF result.tool = "calendar.summary"
                      THEN <<"CalendarSummaryCard">>
                      ELSE IF result.tool = "email.draft.generate"
                      THEN <<"DraftEmailPreviewCard", "ApprovalActionCard">>
                      ELSE IF result.tool \in {"email.send", "calendar.event.create"}
                      THEN <<"ApprovalActionCard">>
                      ELSE <<>>
         IN cards \o ResultCards(Tail(toolResults))

buildCards(decision, toolResults) ==
    IF decision.status = "needs_clarification" THEN <<"ClarificationPromptCard">>
    ELSE ResultCards(toolResults)
         \o (IF decision.status = "requires_approval"
             THEN <<"ApprovalActionCard">> ELSE <<>>)

(* buildQuickActions: the actions offered *)
buildQuickActions(decision, cards) ==
    LET some(type) == \E i \in 1..Len(cards) : cards[i] = type IN
    IF decision.status = "needs_clarification" THEN <<"clarify">>
    ELSE IF decision.status = "requires_approval" THEN <<"open_actions", "approve">>
    ELSE IF decision.status = "blocked" THEN <<"retry">>
    ELSE IF some("CalendarSummaryCard") THEN <<"view_calendar">>
    ELSE IF some("DraftEmailPreviewCard") THEN <<"view_draft">>
    ELSE <<>>

(* toolResults.some((r) => r.ok && tools.includes(r.tool)) *)
SomeOk(toolResults, tools) ==
    \E i \in 1..Len(toolResults) : toolResults[i].ok /\ toolResults[i].tool \in tools

(* buildMessageText: the text as pieces; where no branch supplies the text  *)
(* it is asked of the completion service, whose failure (llmOk = FALSE) is  *)
(* thrown on                                                               *)
buildMessageText(decision, toolResults, llmOk) ==
    IF decision.status = "needs_clarification"
    THEN [ok |-> TRUE, error |-> NoError,
          text |-> <<"Please provide">> \o decision.requiredFields]
    ELSE IF decision.status = "requires_approval"
    THEN [ok |-> TRUE, error |-> NoError,
          text |-> IF SomeOk(toolResults, {"email.send", "calendar.event.create"})
                   THEN <<"I prepared an approval action.">>
                   ELSE IF decision.policyNotes # <<>> THEN decision.policyNotes[1]
                   ELSE <<"This action requires approval before execution.">>]
    ELSE IF decision.status = "blocked"
    THEN [ok |-> TRUE, error |-> NoError,
          text |-> IF decision.policyNotes # <<>> THEN decision.policyNotes[1]
                   ELSE <<"I cannot proceed with that request.">>]
    ELSE IF SomeOk(toolResults, {"calendar.summary"})
    THEN [ok |-> TRUE, error |-> NoError, text |-> <<"conciseSummary">>]
    ELSE IF SomeOk(toolResults, {"email.draft.generate"})
    THEN [ok |-> TRUE, error |-> NoError, text |-> <<"I created a draft email.">>]
    ELSE IF llmOk
    THEN [ok |-> TRUE, error |-> NoError, text |-> <<"completion">>]
    ELSE [ok |-> FALSE, error |-> <<"ollama_http_500">>, text |-> <<>>]

(* runMultiAgentOrchestration from the Responder's answer on: the last      *)
(* traces, the update of the run, and the catch block when the answer or    *)
(* the last trace write threw                                               *)
RunResponded(st6, plan, firstDecision, toolResults, finalDecision, cards, quickActions, message, fault) ==
    LET st7 == audit(st6, "responder", "executed",
                     [decision |-> finalDecision.status, cards |-> cards,
                      quickActions |-> quickActions], NULL)
        st8 == updateOrchestrationRun(st7, "executed", NULL)
        st9 == IF fault = "run_executed_trace"
               THEN auditInterrupted(st8, "run", "executed",
                                     [decision |-> finalDecision.status], NULL)
               ELSE audit(st8, "run", "executed",
                          [decision |-> finalDecision.status], NULL)
        error == IF ~message.ok THEN message.error
                 ELSE IF fault = "run_executed_trace" THEN StoreFault
                 ELSE NoError
        thrown == IF ~message.ok THEN st6 ELSE st9
        caught == audit(updateOrchestrationRun(thrown, "failed", MessageOf(error)),
                        "run", "failed", NoDetails, MessageOf(error))
        done == IF error = NoError THEN st9 ELSE caught
        value == [plan |-> plan, firstDecision |-> firstDecision,
                  toolResults |-> toolResults, decision |-> finalDecision,
                  messageText |-> message.text, cards |-> cards,
                  quickActions |-> quickActions,
                  run |-> done.run, trace |-> done.trace, logs |-> done.logs,
                  decisions |-> done.decisions]
    IN [ok |-> error = NoError, error |-> error, db |-> done.db, value |-> value]

(* runMultiAgentOrchestration from the cards on *)
RunCarded(st6, plan, firstDecision, toolResults, finalDecision, cards, env) ==
    RunResponded(st6, plan, firstDecision, toolResults, finalDecision, cards,
                 buildQuickActions(finalDecision, cards),
                 buildMessageText(finalDecision, toolResults, env.llmOk),
                 env.fault)

(* RunDecided, with a judge trace for the final decision of every run *)
RunDecided_TracesEveryDecision(st, plan, firstDecision, toolResults, finalDecision, env) ==
    LET st5 == IF Len(toolResults) > 0
               THEN saveJudgeDecision(st, "post_tool", finalDecision)
               ELSE st
        st6 == audit(st5, "judge", "executed",
                     [status |-> finalDecision.status,
                      policyNotes |-> finalDecision.policyNotes], NULL)
    IN RunCarded(st6, plan, firstDecision, toolResults, finalDecision,
                 buildCards(finalDecision, toolResults), env)

(* runMultiAgentOrchestration from the second decision of the Judge on *)
RunDecided(st, plan, firstDecision, toolResults, finalDecision, env) ==
    LET st5 == IF Len(toolResults) > 0
               THEN saveJudgeDecision(st, "post_tool", finalDecision)
               ELSE st
        st6 == IF finalDecision.status # firstDecision.status
               THEN audit(st5, "judge", "executed",
                          [status |-> finalDecision.status,
                           policyNotes |-> finalDecision.policyNotes], NULL)
               ELSE st5
    IN RunCarded(st6, plan, firstDecision, toolResults, finalDecision,
                 buildCards(finalDecision, toolResults), env)

(* runMultiAgentOrchestration from the return of the Tool Executor on *)
RunExecuted(tools, plan, firstDecision, env) ==
    RunDecided(tools.st, plan, firstDecision, tools.results,
               postToolJudge(firstDecision, tools.results), env)

(* runMultiAgentOrchestration from the first decision of the Judge on *)
RunJudged(st3, now, plan, firstDecision, env) ==
    LET st4 == audit(saveJudgeDecision(st3, "pre_tool", firstDecision),
                     "judge", "executed",
                     [status |-> firstDecision.status,
                      requiresApproval |-> firstDecision.requiresApproval,
                      requiredFields |-> firstDecision.requiredFields], NULL)
    IN RunExecuted(RunTools(st4, now, plan, firstDecision, env),
                   plan, firstDecision, env)

(* runMultiAgentOrchestration from the Thinker's plan on *)
RunPlanned(st2, now, plan, plannerSource, env) ==
    LET st3 == audit(st2, "thinker", "executed",
                     [intent |-> plan.intent, riskLevel |-> plan.riskLevel,
                      toolCalls |-> [i \in 1..Len(plan.toolCalls) |->
                                       [tool |-> plan.toolCalls[i].tool,
                                        sideEffect |-> plan.toolCalls[i].sideEffect]],
                      plannerSource |-> plannerSource],
                     NULL)
    IN RunJudged(st3, now, plan, judgePlan(plan), env)

(* what the caller of a run is handed for the properties: the response and  *)
(* the rows of the run, with the input, the context pack, what the Thinker  *)
(* did and what the completion service had for it                           *)
WithThinker(r, input, context, thinker) ==
    [r EXCEPT !.value = [input |-> input, context |-> context,
                         plannerSource |-> thinker.plannerSource,
                         plannerAsked |-> thinker.asked,
                         completion |-> thinker.answer] @@ @]

(* runMultiAgentOrchestration from the context pack on *)
RunRead(st1, now, input, context, thinker, env) ==
    WithThinker(RunPlanned(audit(st1, "reader", "executed",
                                 [intentGuess |-> context.intentGuess,
                                  tools |-> context.toolContext.enabledTools],
                                 NULL),
                           now, thinker.plan, thinker.plannerSource, env),
                input, context, thinker)

(* runMultiAgentOrchestration when the first trace write throws: the run    *)
(* row and the audit row are written and the error leaves the function,     *)
(* for the try statement starts after the first audit                       *)
RunUntraced(st) ==
    [ok |-> FALSE, error |-> StoreFault, db |-> st.db,
     value |-> [run |-> st.run, trace |-> st.trace, logs |-> st.logs,
                decisions |-> st.decisions]]

ChannelOf(input) == Coalesce(input.channel, "in_app")

(* runMultiAgentOrchestration.  input is the OrchestratorInput; env holds   *)
(* what the run meets outside the database: the planner's reply, the        *)
(* services the tools call, and env.fault, the one insert into agent_traces *)
(* that throws, if any.  The value of the result is the run: plan, both     *)
(* decisions, tool results, response and the rows it stored.                *)
runMultiAgentOrchestration(db, now, input, env) ==
    IF env.fault = "run_prepared_trace"
    THEN RunUntraced(auditInterrupted(
             createOrchestrationRun(NewRun(db), "prepared"), "run", "prepared",
             [mode |-> input.mode, channel |-> ChannelOf(input)], NULL))
    ELSE RunRead(audit(createOrchestrationRun(NewRun(db), "prepared"),
                       "run", "prepared",
                       [mode |-> input.mode, channel |-> ChannelOf(input)], NULL),
                 now, input, buildContextPack(input),
                 ThinkerPlan(input, buildContextPack(input), env.reply), env)

----------------------------------------------------------------------------
(* The chat route and the plans it is driven with *)

Prompt == Str(<<"q", "3">>)

BadDate == Str(<<"2", "0", "2", "6", "-", "1", "3", "-", "0", "5">>)

Call(tool, args) == [tool |-> tool, args |-> args]

(* tool calls as the Thinker names them, before buildToolCall *)
RawCalls ==
    { Call("calendar.summary", [NoArgs EXCEPT !.mode = Today]),
      Call("calendar.summary", [NoArgs EXCEPT !.mode = Week, !.anchorDate = BadDate]),
      Call("calendar.events", [NoArgs EXCEPT !.anchorDate = Date]),
      Call("calendar.events", [NoArgs EXCEPT !.anchorDate = BadDate]),
      Call("email.draft.generate",
           [NoArgs EXCEPT !.to = Arr(<<Recipient>>), !.prompt = Prompt]),
      Call("email.draft.generate", [NoArgs EXCEPT !.prompt = Prompt]),
      Call("email.send",
           [NoArgs EXCEPT !.to = Arr(<<Recipient>>), !.subject = Subject,
                          !.body = Body]),
      Call("email.send", [NoArgs EXCEPT !.to = Arr(<<Recipient>>)]),
      Call("email.send", [NoArgs EXCEPT !.subject = Blank]),
      Call("calendar.event.create",
           [NoArgs EXCEPT !.eventTitle = Title, !.startDate = Date,
                          !.startTime = T1000, !.endTime = T1030]),
      Call("calendar.event.create",
           [NoArgs EXCEPT !.eventTitle = Title, !.startDate = Date,
                          !.startTime = T1000]),
      Call("delete.resource", NoArgs),
      Call("web.search", NoArgs) }

(* the lists of at most n raw calls *)
RECURSIVE RawPlans(_)
RawPlans(n) ==
    IF n = 0 THEN {<<>>}
    ELSE RawPlans(n - 1)
         \cup {Append(p, c) : p \in {q \in RawPlans(n - 1) : Len(q) = n - 1},
                              c \in RawCalls}

(* the plans the Thinker may come back with *)
ThinkerPlans == RawPlans(MaxCalls)

(* the services a run meets: a connected Google calendar, a second seeding *)
(* interleaved with the first (there is one only when the calendar is not   *)
(* connected), the model server answering the Responder                     *)
Services ==
    {e \in [connected : BOOLEAN, raced : BOOLEAN, llmOk : BOOLEAN] :
       e.raced => ~e.connected}

Env(services, reply, fault) ==
    [connected |-> services.connected, raced |-> services.raced,
     llmOk |-> services.llmOk, reply |-> reply, fault |-> fault]

Greeting ==
    [messages |-> <<Msg("user", <<" ", "h", "e", "l", "l", "o", " ">>)>>,
     mode |-> "deep", channel |-> NULL, tools |-> Undef, attachments |-> Undef,
     userPrefs |-> Undef]

Chat(input, reply) == [input |-> input, reply |-> reply]

(* a plan of the planner the schema accepts *)
SummaryReply ==
    PlanReply("calendar_summary",
              <<Call("calendar.summary", [NoArgs EXCEPT !.mode = Today])>>, "low")

(* chat requests in deep mode whose planner comes back with a plan: every  *)
(* plan of ThinkerPlans, on a greeting                                      *)
PlannedChats ==
    {Chat(Greeting, PlanReply("assist", rawCalls, "medium")) : rawCalls \in ThinkerPlans}

(* POST /api/chat after the run: the chat_completion audit row *)
ChatCompletion(r) ==
    [r EXCEPT !.db = writeAuditLog(r.db, "chat_completion", "conversation", NoRef,
                                   IF r.ok THEN "executed" ELSE "failed",
                                   NoDetails,
                                   IF r.ok THEN NULL ELSE MessageOf(r.error))]

(* POST /api/chat, the answer: a run that throws is answered 502 *)
ChatAnswer(r) ==
    /\ Commit(r.db)
    /\ Respond("chat", NoRef, "none", r, 200, 502)

(* POST /api/chat: the run, then a chat_completion audit row, then the      *)
(* answer; for the requests of chats, with faults among the faults the      *)
(* store has                                                               *)
ChatRequest(chats, faults) ==
    /\ Len(approvalActions) < MaxActions
    /\ \E chat \in chats, services \in Services, fault \in faults :
         ChatAnswer(ChatCompletion(
             runMultiAgentOrchestration(Db, clock, chat.input,
                                        Env(services, chat.reply, fault))))
    /\ UNCHANGED <<clock, phase>>

ChatRoute == ChatRequest(PlannedChats, {"none"})

(* the sidecar taking chat requests next to the two routes that prepare     *)
(* actions directly                                                        *)
ChatNext ==
    \/ ChatRoute
    \/ PrepareRoute
    \/ GenerateDraftRoute

ChatSpec == Init /\ [][ChatNext]_vars

----------------------------------------------------------------------------
(* Vocabulary of the properties on runs *)

(* this step is a chat request; its run is last'.value *)
Chatted == Requested /\ last'.op = "chat"

(* the last request was a chat request whose run completed *)
RunDone == last.op = "chat" /\ last.ok

ApprovalTools == {"email.send", "calendar.event.create"}

IsApprovalCall(toolCall) == toolCall.tool \in ApprovalTools

(* the run wrote nothing but audit rows, actions apart *)
NoToolEffect ==
    /\ calendars' = calendars
    /\ calendarEvents' = calendarEvents
    /\ draftEmails' = draftEmails
    /\ localDrafts' = localDrafts
    /\ gmailSends' = gmailSends

----------------------------------------------------------------------------
(* C11: when the pre-tool decision is requires_approval the run executes    *)
(* no tool call; for each email.send or calendar.event.create call of the   *)
(* plan, in plan order, it appends exactly one action in status prepared    *)
(* whose payload is that call's args, and records for it a tool result      *)
(* with ok = TRUE marked preparedOnly.                                      *)
C11_Steps ==
    Chatted /\ last'.value.firstDecision.status = "requires_approval" =>
      LET run == last'.value
          calls == SelectSeq(run.plan.toolCalls, IsApprovalCall)
          before == Len(approvalActions)
      IN /\ NoToolEffect
         /\ Len(approvalActions') = before + Len(calls)
         /\ SubSeq(approvalActions', 1, before) = approvalActions
         /\ Len(run.toolResults) = Len(calls)
         /\ Len(run.logs) = 2 * Len(calls)
         /\ \A i \in 1..Len(calls) :
              LET action == approvalActions'[before + i]
                  result == run.toolResults[i]
              IN /\ action.status = "prepared"
                 /\ action.actionType = calls[i].tool
                 /\ action.payload = calls[i].args
                 /\ result.ok
                 /\ result.toolCallId = calls[i].id
                 /\ result.tool = calls[i].tool
                 /\ result.data.preparedOnly
                 /\ result.data.approvalAction = action

C11_ApprovalPreparedNotExecuted == [][C11_Steps]_vars

(* a run that prepared an email.send and then a calendar.event.create *)
C11_Witness ==
    /\ RunDone
    /\ last.value.firstDecision.status = "requires_approval"
    /\ Len(last.value.toolResults) = 2
    /\ last.value.toolResults[1].tool = "email.send"
    /\ last.value.toolResults[2].tool = "calendar.event.create"
    /\ Len(approvalActions) = 2

----------------------------------------------------------------------------
(* the tool results of a run that carry an approval action *)
WithAction(toolResults) ==
    SelectSeq(toolResults,
              LAMBDA r : r.ok /\ r.tool \in ApprovalTools \cup {"email.draft.generate"})

(* the actions this step appended *)
Appended == SubSeq(approvalActions', Len(approvalActions) + 1, Len(approvalActions'))

(* the step's new actions are those of the run's tool results, in order *)
AppendedByExecutor ==
    LET carried == WithAction(last'.value.toolResults) IN
    /\ Chatted
    /\ Len(carried) = Len(Appended)
    /\ \A i \in 1..Len(carried) :
         /\ carried[i].data.approvalAction = Appended[i]
         /\ \E k \in 1..Len(last'.value.plan.toolCalls) :
              LET toolCall == last'.value.plan.toolCalls[k]
              IN toolCall.id = carried[i].toolCallId /\ toolCall.sideEffect

(* C12, as claimed: an action is in the ledger only if the Tool Executor    *)
(* of a run handled a side-effecting tool call for it, and a run whose      *)
(* pre-tool decision is needs_clarification or blocked appends none.        *)
C12_Original_Steps ==
    /\ Chatted /\ last'.value.firstDecision.status \in {"needs_clarification", "blocked"}
         => approvalActions' = approvalActions
    /\ approvalActions' # approvalActions => AppendedByExecutor

C12_Steps ==
    /\ Chatted /\ last'.value.firstDecision.status \in {"needs_clarification", "blocked"}
         => approvalActions' = approvalActions
    /\ Chatted => AppendedByExecutor
    /\ SubSeq(approvalActions', 1, Len(approvalActions)) = approvalActions
    /\ approvalActions' # approvalActions /\ ~Chatted =>
         /\ Requested /\ last'.op \in {"prepare", "generate"}
         /\ Len(Appended) = 1
         /\ last'.id = Appended[1].id
         /\ last'.op = "generate" <=> Appended[1].targetType = "draft_email"

----------------------------------------------------------------------------
HasTool(toolCalls, tool) == \E i \in 1..Len(toolCalls) : toolCalls[i].tool = tool

(* C13: for every plan that contains a delete.resource call, wherever it    *)
(* stands, the pre-tool decision is blocked with requiredFields =           *)
(* <<confirmDeleteTarget>>, and the run executes no tool call and prepares  *)
(* no action.                                                              *)
C13_Steps ==
    Chatted /\ HasTool(last'.value.plan.toolCalls, "delete.resource") =>
      /\ last'.value.firstDecision.status = "blocked"
      /\ last'.value.firstDecision.requiredFields = <<"confirmDeleteTarget">>
      /\ last'.value.decision = last'.value.firstDecision
      /\ last'.value.toolResults = <<>>
      /\ last'.value.logs = <<>>
      /\ \A i \in 1..Len(last'.value.trace) :
           last'.value.trace[i].agent # "tool_executor"
      /\ approvalActions' = approvalActions
      /\ NoToolEffect

C13_DeleteIsBlocked == [][C13_Steps]_vars

(* a run whose plan names a complete email.send and then a delete.resource *)
C13_Witness ==
    /\ RunDone
    /\ Len(last.value.plan.toolCalls) = 2
    /\ last.value.plan.toolCalls[1].tool = "email.send"
    /\ FieldsOf(last.value.plan.toolCalls[1]) = <<>>
    /\ last.value.plan.toolCalls[2].tool = "delete.resource"
    /\ last.value.firstDecision.status = "blocked"

----------------------------------------------------------------------------
(* the last request was a chat request; its plan and pre-tool decision *)
Judged == last.op = "chat"

Plan == last.value.plan.toolCalls

Judgement == last.value.firstDecision

(* the fields the plan's calls lack, call by call *)
RECURSIVE MissingFields(_)
MissingFields(toolCalls) ==
    IF toolCalls = <<>> THEN <<>>
    ELSE FieldsOf(Head(toolCalls)) \o MissingFields(Tail(toolCalls))

----------------------------------------------------------------------------
(* the recipients of a call: the strings of its `to` list *)
HasRecipient(args) ==
    args.to.t = "array" /\ \E i \in 1..Len(args.to.v) : args.to.v[i].t = "string"

(* the fields the Judge requires of a call and the call lacks *)
Lacking(toolCall) ==
    LET a == toolCall.args IN
    IF toolCall.tool = "email.send"
    THEN {f \in {"recipient", "subject", "body"} :
            \/ f = "recipient" /\ ~HasRecipient(a)
            \/ f = "subject" /\ ~NonEmptyText(a.subject)
            \/ f = "body" /\ ~NonEmptyText(a.body)}
    ELSE IF toolCall.tool = "calendar.event.create"
    THEN {f \in {"eventTitle", "startDate", "startTime", "endTime"} :
            \/ f = "eventTitle" /\ ~NonEmptyText(a.eventTitle)
            \/ f = "startDate" /\ ~NonEmptyText(a.startDate)
            \/ f = "startTime" /\ ~NonEmptyText(a.startTime)
            \/ f = "endTime" /\ ~NonEmptyText(a.endTime)}
    ELSE IF toolCall.tool = "email.draft.generate"
    THEN {f \in {"recipient"} : ~HasRecipient(a)}
    ELSE {}

LackingOfPlan == UNION {Lacking(Plan[i]) : i \in 1..Len(Plan)}

(* C15: for a plan without delete.resource, requiredFields lists, without   *)
(* duplicates, exactly the fields the plan's calls lack, and the status is  *)
(* needs_clarification exactly when there is such a field.                  *)
C15_RequiredFieldsAreTheMissingOnes ==
    Judged /\ ~HasTool(Plan, "delete.resource") =>
      LET fields == Judgement.requiredFields IN
      /\ {fields[i] : i \in 1..Len(fields)} = LackingOfPlan
      /\ \A i, j \in 1..Len(fields) : fields[i] = fields[j] => i = j
      /\ Judgement.status = "needs_clarification" <=> LackingOfPlan # {}

(* an email.send call without a recipient next to an email.draft.generate   *)
(* call without one: recipient is lacking twice and listed once            *)
C15_Witness ==
    /\ Judged
    /\ Len(Plan) = 2
    /\ Plan[1].tool = "email.send" /\ Plan[2].tool = "email.draft.generate"
    /\ "recipient" \in Lacking(Plan[1]) \cap Lacking(Plan[2])
    /\ Judgement.requiredFields = <<"recipient", "subject", "body">>
    /\ Judgement.status = "needs_clarification"

----------------------------------------------------------------------------
Results == last.value.toolResults

Final == last.value.decision

SomeFailed == \E i \in 1..Len(Results) : ~Results[i].ok

(* the failed results before which every result is ok: the first failure *)
Failures == {i \in 1..Len(Results) : ~Results[i].ok /\ \A j \in 1..(i - 1) : Results[j].ok}

(* C16: the final decision of a run is its pre-tool decision, unless that   *)
(* is proceed and a tool result has ok = FALSE; then it is blocked and its  *)
(* policy note names the tool and the error of the first failed result.     *)
(* So the two differ only by proceed -> blocked.                            *)
C16_PostToolJudge ==
    Judged =>
      /\ IF Judgement.status = "proceed" /\ SomeFailed
         THEN /\ Final.status = "blocked"
              /\ \A i \in Failures :
                   Final.policyNotes = <<<<"Tool execution failed", Results[i].tool>>
                                         \o Results[i].error>>
         ELSE Final = Judgement
      /\ Final # Judgement =>
           Judgement.status = "proceed" /\ Final.status = "blocked"

(* a proceed run whose two calls both failed, a calendar.summary first *)
C16_Witness ==
    /\ Judged
    /\ Judgement.status = "proceed"
    /\ Len(Results) = 2
    /\ ~Results[1].ok /\ Results[1].tool = "calendar.summary"
    /\ ~Results[2].ok /\ Results[2].tool = "calendar.events"
    /\ Final.status = "blocked"

----------------------------------------------------------------------------
(* C20: when a tool call of a proceed run throws, the run records           *)
(* {ok: FALSE, error} for that call, still executes the calls after it in   *)
(* order, ends with status executed and answers normally, and its final     *)
(* decision is blocked.                                                     *)
C20_Steps ==
    Chatted /\ last'.value.firstDecision.status = "proceed"
            /\ (\E i \in 1..Len(last'.value.toolResults) : ~last'.value.toolResults[i].ok) =>
      LET run == last'.value
          calls == run.plan.toolCalls
          results == run.toolResults
          drafted == {i \in 1..Len(results) :
                        results[i].ok /\ results[i].tool = "email.draft.generate"}
      IN /\ Len(results) = Len(calls)
         /\ Len(run.logs) = 2 * Len(calls)
         /\ \A i \in 1..Len(calls) :
              /\ results[i].toolCallId = calls[i].id
              /\ results[i].tool = calls[i].tool
              /\ run.logs[2 * i - 1].status = "prepared"
              /\ run.logs[2 * i].status = IF results[i].ok THEN "executed" ELSE "failed"
              /\ ~results[i].ok => results[i].error # NoError
         /\ Len(draftEmails') = Len(draftEmails) + Cardinality(drafted)
         /\ \A i \in drafted :
              /\ results[i].data.draft.id \in (Len(draftEmails) + 1)..Len(draftEmails')
              /\ draftEmails'[results[i].data.draft.id] = results[i].data.draft
         /\ last'.ok /\ last'.http = 200
         /\ run.run.status = "executed"
         /\ run.decision.status = "blocked"

C20_ToolFailureDoesNotAbort == [][C20_Steps]_vars

(* a run whose first call threw and whose second call created a draft *)
C20_Witness ==
    /\ RunDone
    /\ Judgement.status = "proceed"
    /\ Len(Results) = 2
    /\ ~Results[1].ok /\ Results[1].error = <<"Invalid time value">>
    /\ Results[2].ok /\ Results[2].tool = "email.draft.generate"
    /\ Len(draftEmails) = 1
    /\ last.value.run.status = "executed"
    /\ Final.status = "blocked"

----------------------------------------------------------------------------
(* C17: a successful transitionAction call appends exactly one audit row,   *)
(* an approval_transition row carrying {from: the status before, to: the    *)
(* new status}; a call rejected with action_not_found (unknown id),         *)
(* action_terminal or invalid_transition appends no audit row and leaves    *)
(* the stored actions as they were.  The transition route shows the same.   *)
C17_Calls ==
    \A id \in RequestIds, nextStatus \in AnyStatus, body \in TransitionInputs :
      LET r == transitionAction(Db, clock, TransitionInput(id, nextStatus, body)) IN
      IF r.ok
      THEN /\ Has(id)
           /\ Len(r.db.audit) = 1
           /\ r.db.audit[1].actionType = "approval_transition"
           /\ r.db.audit[1].targetRef = id
           /\ r.db.audit[1].details.from = approvalActions[id].status
           /\ r.db.audit[1].details.to = nextStatus
           /\ r.db.actions[id].status = nextStatus
      ELSE /\ r.db = Db
           /\ r.error[1] = (IF ~Has(id) THEN "action_not_found"
                            ELSE IF approvalActions[id].status \in Ended
                            THEN "action_terminal"
                            ELSE "invalid_transition")

C17_Steps ==
    Requested /\ last'.op = "transition" =>
      IF last'.ok
      THEN /\ Len(auditLogs') = 1
           /\ auditLogs'[1].actionType = "approval_transition"
           /\ auditLogs'[1].details.from = approvalActions[last'.id].status
           /\ auditLogs'[1].details.to = approvalActions'[last'.id].status
           /\ approvalActions'[last'.id].status = last'.nextStatus
      ELSE /\ auditLogs' = <<>>
           /\ approvalActions' = approvalActions

C17_TransitionsAreAudited == [](C17_Calls) /\ [][C17_Steps]_vars

(* an approved action was cancelled through the route: one audit row from   *)
(* approved to cancelled                                                   *)
C17_Witness ==
    /\ last.op = "transition" /\ last.ok
    /\ Len(auditLogs) = 1
    /\ auditLogs[1].details.from = "approved"
    /\ auditLogs[1].details.to = "cancelled"
    /\ approvalActions[last.id].status = "cancelled"

----------------------------------------------------------------------------
(* what prepareAction fixes of an action *)
Prepared(action) ==
    [id |-> action.id, actionType |-> action.actionType,
     targetType |-> action.targetType, targetRef |-> action.targetRef,
     payload |-> action.payload, requestedBy |-> action.requestedBy,
     createdAt |-> action.createdAt]

(* C18: no step changes the id, actionType, targetType, targetRef, payload, *)
(* requestedBy or createdAt of a stored action, and none removes an action; *)
(* a gated execution is the only step that materializes a draft or an      *)
(* event, and the calendar event it creates is made from the stored         *)
(* payload.                                                                 *)
C18_Steps ==
    /\ Len(approvalActions') >= Len(approvalActions)
    /\ \A id \in 1..Len(approvalActions) :
         /\ approvalActions'[id].id = id
         /\ Prepared(approvalActions'[id]) = Prepared(approvalActions[id])
    /\ localDrafts' # localDrafts => Requested /\ last'.op = "execute"
    /\ calendarEvents' # calendarEvents =>
         LET event == calendarEvents'[Len(calendarEvents')]
             payload == approvalActions[last'.id].payload
         IN /\ Requested /\ last'.op = "execute"
            /\ Len(calendarEvents') = Len(calendarEvents) + 1
            /\ event.title = Trim(payload.eventTitle.v)
            /\ event.startAt = combineDateTimeUtc(Trim(payload.startDate.v),
                                                  Trim(payload.startTime.v))
            /\ event.endAt = combineDateTimeUtc(Trim(payload.startDate.v),
                                                Trim(payload.endTime.v))

C18_PreparedFieldsAreFrozen == [][C18_Steps]_vars

(* an action that was approved, rejected as stale, reaffirmed and executed: *)
(* its event is the one its payload described at preparation               *)
C18_Witness ==
    /\ Len(approvalActions) = 1 /\ Len(calendarEvents) = 1
    /\ approvalActions[1].status = "executed"
    /\ phase[1] = "reaffirmed_executed"
    /\ approvalActions[1].createdAt < approvalActions[1].updatedAt
    /\ WellFormedEvent(approvalActions[1].payload)
    /\ calendarEvents[1].title = Trim(approvalActions[1].payload.eventTitle.v)

----------------------------------------------------------------------------
(* Requests in flight.  The service functions await the database between    *)
(* their read of the action and their write, and nothing (no transaction,   *)
(* no condition on the status in the update) ties the two together.  Here   *)
(* a request is handled in steps, one per database round of the code that   *)
(* matters to the ledger: the read with the checks that follow it, the      *)
(* side-effecting operation, the update with its audit rows.                *)

(* transitionAction up to the update: the read and the three checks *)
TransitionRead(db, input) ==
    LET current == getAction(db, input.actionId) IN
    IF current.id = NoRef THEN Throw(db, Err("action_not_found", <<>>))
    ELSE IF current.status \in TERMINAL THEN Throw(db, Err("action_terminal", <<>>))
    ELSE IF ~allowed(current.status, input.nextStatus)
         THEN Throw(db, Err("invalid_transition", <<current.status, input.nextStatus>>))
    ELSE Return(db, current)

(* transitionAction from the update on: the update keyed by id, the read    *)
(* of the updated row and the audit row; current is the row as it was read  *)
TransitionWrite(db, now, input, current) ==
    LET next == [db.actions[input.actionId] EXCEPT
                   !.status = input.nextStatus,
                   !.approvedBy = Coalesce(input.approvedBy,
                                           Coalesce(current.approvedBy, NULL)),
                   !.errorDetails = Coalesce(input.errorDetails, NULL),
                   !.updatedAt = now]
        db1 == [db EXCEPT !.actions[input.actionId] = next]
    IN Return(writeAuditLog(db1, "approval_transition", next.targetType, next.id,
                            input.nextStatus,
                            [NoDetails EXCEPT !.from = current.status,
                                              !.to = input.nextStatus],
                            input.errorDetails),
              next)

(* reaffirmAction up to the update *)
ReaffirmRead(db, input) ==
    LET current == getAction(db, input.actionId) IN
    IF current.id = NoRef THEN Throw(db, Err("action_not_found", <<>>))
    ELSE IF current.status # "approved" THEN Throw(db, Err("action_not_approved", <<>>))
    ELSE Return(db, current)

(* reaffirmAction from the update on *)
ReaffirmWrite(db, now, input, current) ==
    LET next == [db.actions[input.actionId] EXCEPT
                   !.approvedBy = Coalesce(input.approvedBy,
                                           Coalesce(current.approvedBy, NULL)),
                   !.updatedAt = now]
        db1 == [db EXCEPT !.actions[input.actionId] = next]
    IN Return(writeAuditLog(db1, "approval_reaffirmed", next.targetType, next.id,
                            next.status,
                            [NoDetails EXCEPT !.actionType = next.actionType], NULL),
              next)

(* executeApprovedAction up to the operation: the read, the gate and the    *)
(* begin audit row                                                         *)
ExecuteRead(db, now, input) ==
    LET action == getAction(db, input.actionId) IN
    IF action.id = NoRef THEN Throw(db, Err("action_not_found", <<>>))
    ELSE IF action.status # "approved" THEN Throw(db, Err("action_not_approved", <<>>))
    ELSE
      LET policyIssues == validateApprovedActionExecution(action, now) IN
      IF Len(policyIssues) > 0 THEN BlockExecution(db, action, policyIssues)
      ELSE Return(writeAuditLog(db, "action_execute_begin", action.targetType,
                                action.id, "prepared",
                                [NoDetails EXCEPT !.actionType = action.actionType],
                                NULL),
                  action)

(* the input of the transitionAction call of executeApprovedAction *)
ExecutedInput(input, action) ==
    [actionId |-> action.id, nextStatus |-> "executed",
     approvedBy |-> OrElse(input.approvedBy, OrElse(action.approvedBy, "local-user")),
     errorDetails |-> NULL]

(* executeApprovedAction after its transitionAction call *)
ExecuteComplete(db, updated) ==
    writeAuditLog(db, "action_execute_complete", updated.targetType, updated.id,
                  "executed", [NoDetails EXCEPT !.actionType = updated.actionType],
                  NULL)

Connections == 1..MaxInFlight

(* a request that arrives takes the first connection with none on it *)
Accepts(s) ==
    /\ inflight[s].pc = "idle"
    /\ \A t \in Connections : t < s => inflight[t].pc # "idle"

Request(pc, op, input, current) ==
    [pc |-> pc, op |-> op, input |-> input, current |-> current]

(* the request on connection s goes on to pc, or is answered *)
GoOn(s, request) == inflight' = [inflight EXCEPT ![s] = request]

Answer(s, op, input, r) ==
    /\ inflight' = [inflight EXCEPT ![s] = Idle]
    /\ Respond(op, input.actionId, input.nextStatus, r, 200, ErrorCode(r.error))

(* a transition request arrives and transitionAction reads the action *)
RaceTransitionRead ==
    \E s \in Connections, actionId \in RequestIds,
       nextStatus \in NextStatusInputs \ {"executed"}, body \in TransitionInputs :
      LET input == TransitionInput(actionId, nextStatus, body)
          r == TransitionRead(Db, input)
      IN /\ Accepts(s)
         /\ Store(r.db)
         /\ IF r.ok
            THEN GoOn(s, Request("write", "transition", input, r.value))
                 /\ UNCHANGED last
            ELSE Answer(s, "transition", input, r)
         /\ UNCHANGED <<clock, phase>>

(* a reaffirm request arrives and reaffirmAction reads the action *)
RaceReaffirmRead ==
    \E s \in Connections, actionId \in RequestIds, approvedBy \in ApprovedByInputs :
      LET input == [actionId |-> actionId, nextStatus |-> "approved",
                    approvedBy |-> approvedBy, errorDetails |-> NULL]
          r == ReaffirmRead(Db, input)
      IN /\ Accepts(s)
         /\ Store(r.db)
         /\ IF r.ok
            THEN GoOn(s, Request("write", "reaffirm", input, r.value))
                 /\ UNCHANGED last
            ELSE Answer(s, "reaffirm", input, r)
         /\ UNCHANGED <<clock, phase>>

(* an execution request arrives and the gate reads and checks the action *)
RaceExecuteRead ==
    \E s \in Connections, actionId \in RequestIds, approvedBy \in ApprovedByInputs :
      LET input == [actionId |-> actionId, nextStatus |-> "executed",
                    approvedBy |-> approvedBy, errorDetails |-> NULL]
          r == ExecuteRead(Db, clock, input)
      IN /\ Accepts(s)
         /\ Store(r.db)
         /\ IF r.ok
            THEN GoOn(s, Request("operate", "execute", input, r.value))
                 /\ UNCHANGED last
            ELSE Answer(s, "execute", input, r)
         /\ UNCHANGED <<clock, phase>>

(* the gate performs the side-effecting operation of the action it read *)
RaceExecuteOperate ==
    \E s \in Connections, storeFails \in BOOLEAN :
      LET request == inflight[s]
          r == RunOperation(Db, clock, request.current, storeFails)
      IN /\ request.pc = "operate"
         /\ Store(r.db)
         /\ IF r.ok
            THEN GoOn(s, [request EXCEPT !.pc = "transition"])
                 /\ UNCHANGED last
            ELSE Answer(s, "execute", request.input, r)
         /\ UNCHANGED <<clock, phase>>

(* the gate calls transitionAction, which reads the action again *)
RaceExecuteTransitionRead ==
    \E s \in Connections :
      LET request == inflight[s]
          input == ExecutedInput(request.input, request.current)
          r == TransitionRead(Db, input)
      IN /\ request.pc = "transition"
         /\ Store(r.db)
         /\ IF r.ok
            THEN GoOn(s, Request("write", "execute", input, r.value))
                 /\ UNCHANGED last
            ELSE Answer(s, "execute", input, r)
         /\ UNCHANGED <<clock, phase>>

(* the update of the request on connection s, and its answer *)
RaceWrite ==
    \E s \in Connections :
      LET request == inflight[s]
          r == IF request.op = "reaffirm"
               THEN ReaffirmWrite(Db, clock, request.input, request.current)
               ELSE TransitionWrite(Db, clock, request.input, request.current)
          done == IF request.op = "execute"
                  THEN [r EXCEPT !.db = ExecuteComplete(r.db, r.value)]
                  ELSE r
      IN /\ request.pc = "write"
         /\ Store(done.db)
         /\ Answer(s, request.op, request.input, done)
         /\ UNCHANGED <<clock, phase>>

(* the action routes of part_006 with up to MaxInFlight requests in flight *)
RaceNext ==
    \/ PrepareRoute
    \/ RaceTransitionRead
    \/ RaceReaffirmRead
    \/ RaceExecuteRead
    \/ RaceExecuteOperate
    \/ RaceExecuteTransitionRead
    \/ RaceWrite

RaceSpec == Init /\ [][RaceNext]_vars

----------------------------------------------------------------------------
(* C19: under any interleaving of the requests in flight, an action whose   *)
(* stored status is executed, failed or cancelled is not written again: no  *)
(* request that read it before it became terminal updates it afterwards.    *)
C19_Steps ==
    \A id \in 1..Len(approvalActions) :
      approvalActions[id].status \in Ended =>
        approvalActions'[id] = approvalActions[id]

----------------------------------------------------------------------------
(* The gate driven with payloads that lack fields, one or several at a      *)
(* time.  POST /api/actions/prepare takes any JSON object as payload.       *)

ShortDate == Str(<<"2", "0", "2", "6", "-", "3", "-", "5">>)

T1000NoColon == Str(<<"1", "0", "0", "0">>)

IncompletePayloads ==
    { Email(Undef, Subject, Body),
      Email(Arr(<<>>), Subject, Body),
      Email(Arr(<<Recipient>>), Blank, Body),
      Email(Arr(<<Recipient>>), Subject, Str(<<>>)),
      Email(Arr(<<>>), Undef, Blank),
      Event(Undef, Date, T1000, T1030),
      Event(Title, ShortDate, T1000, T1030),
      Event(Title, BadDate, T1000, T1030),
      Event(Title, Date, T1000NoColon, T1030),
      Event(Title, Date, T900, Undef),
      Event(Blank, Undef, T1000NoColon, Str(<<>>)) }

IncompleteBodies ==
    {[actionType |-> IF p.eventTitle = Undef /\ p.startDate = Undef
                     THEN "email.send" ELSE "calendar.event.create",
      payload |-> p] : p \in IncompletePayloads}

(* POST /api/actions/prepare with one of these payloads *)
PrepareIncompleteRoute ==
    \E body \in IncompleteBodies :
      /\ Len(approvalActions) < MaxActions
      /\ LET r == prepareAction(Db, clock,
                     [actionType |-> body.actionType, targetType |-> "request",
                      targetRef |-> NoRef, payload |-> body.payload,
                      requestedBy |-> "local-user"])
         IN /\ Commit(r.db)
            /\ Respond("prepare", r.value.id, "prepared", r, 201, 400)
      /\ UNCHANGED <<clock, phase>>

(* createReplyDraftFromThread: the reply to the latest message of a Gmail   *)
(* thread.  Like createDraftEmail it prepares an email.send action whose    *)
(* payload is {subject, to} (and the thread id) and stores the draft row    *)
(* that carries the body.  thread is what getGmailThread gave.              *)
createReplyDraftFromThread(db, now, input, thread) ==
    IF thread = "no_messages" THEN Throw(db, Err("thread_has_no_messages", <<>>))
    ELSE IF thread = "no_sender"
         THEN Throw(db, Err("thread_reply_recipient_not_found", <<>>))
    ELSE
      LET draftId == Len(db.drafts) + 1
          approval == prepareAction(db, now,
                         [actionType |-> "email.send",
                          targetType |-> "draft_email",
                          targetRef |-> draftId,
                          payload |-> [NoPayload EXCEPT !.subject = Str(DraftSubject),
                                                        !.to = Arr(<<Recipient>>)],
                          requestedBy |-> OrElse(input.requestedBy, "local-user")])
          row == [id |-> draftId,
                  accountId |-> input.accountId,
                  to |-> Arr(<<Recipient>>),
                  subject |-> DraftSubject,
                  body |-> DraftBody,
                  status |-> "prepared",
                  approvalActionId |-> approval.value.id,
                  gmailMessageId |-> NoRef,
                  errorDetails |-> NULL,
                  createdAt |-> now,
                  updatedAt |-> now]
          db1 == [approval.db EXCEPT !.drafts = Append(@, row)]
          db2 == writeAuditLog(db1, "email_reply_draft_created", "email_thread", NoRef,
                               "prepared", NoDetails, NULL)
      IN Return(db2, [draft |-> row, approvalAction |-> approval.value])

(* POST /api/email/threads/:threadId/reply-draft *)
ReplyDraftRoute ==
    \E accountId \in {NoRef, 1}, thread \in {"no_messages", "no_sender", "messages"} :
      /\ Len(approvalActions) < MaxActions
      /\ LET r == createReplyDraftFromThread(Db, clock,
                     [accountId |-> accountId, requestedBy |-> NULL], thread)
         IN /\ Commit(r.db)
            /\ Respond("reply_draft",
                       IF r.ok THEN r.value.approvalAction.id ELSE NoRef,
                       "prepared", r, 201, 400)
      /\ UNCHANGED <<clock, phase>>

(* the sidecar of Next, prepare requests with these payloads and reply      *)
(* drafts included                                                         *)
GateNext ==
    \/ PrepareRoute
    \/ PrepareIncompleteRoute
    \/ ReplyDraftRoute
    \/ ExecuteRequest
    \/ TransitionRequest
    \/ ReaffirmRoute
    \/ GenerateDraftRoute
    \/ ApproveSendRoute
    \/ Tick

GateSpec == Init /\ [][GateNext]_vars

----------------------------------------------------------------------------
(* C30.  On an execution request for an approved action the gate's issues   *)
(* are exactly: approval_stale_reapproval_required when the approval is     *)
(* more than 7 days old; for email.send one issue for each of recipient     *)
(* list, subject, body that is absent or empty; for calendar.event.create   *)
(* one issue for each of title empty, date not of the shape YYYY-MM-DD,     *)
(* start time, end time not of the shape H:MM or HH:MM.  The request is     *)
(* rejected with execution_policy_blocked exactly when there is an issue,   *)
(* and the error names all of them, each once.                              *)

(* YYYY-MM-DD, as a shape *)
DateText(x) ==
    /\ x.t = "string" /\ Len(x.v) = 10
    /\ x.v[5] = "-" /\ x.v[8] = "-"
    /\ \A i \in {1, 2, 3, 4, 6, 7, 9, 10} : x.v[i] \in Digits

RecipientList(x) ==
    /\ x.t = "array" /\ Len(x.v) > 0
    /\ \A i \in 1..Len(x.v) : x.v[i].t = "string"

IssuesClaimed(action) ==
    LET p == action.payload
        email == action.actionType = "email.send"
        event == action.actionType = "calendar.event.create"
    IN {code \in {"approval_stale_reapproval_required"} : ~Fresh(action)}
       \cup {code \in {"email_to_missing"} : email /\ ~RecipientList(p.to)}
       \cup {code \in {"email_subject_missing"} : email /\ ~NonEmptyText(p.subject)}
       \cup {code \in {"email_body_missing"} : email /\ ~NonEmptyText(p.body)}
       \cup {code \in {"event_title_missing"} : event /\ ~NonEmptyText(p.eventTitle)}
       \cup {code \in {"event_start_date_invalid"} : event /\ ~DateText(p.startDate)}
       \cup {code \in {"event_start_time_invalid"} : event /\ ~ClockText(p.startTime)}
       \cup {code \in {"event_end_time_invalid"} : event /\ ~ClockText(p.endTime)}

Blocked(response) ==
    ~response.ok /\ response.error[1] = "execution_policy_blocked"

C30_Steps ==
    (Requested /\ last'.op = "execute" /\ Has(last'.id)
       /\ approvalActions[last'.id].status = "approved")
      => LET claimed == IssuesClaimed(approvalActions[last'.id])
             named == Tail(last'.error)
         IN /\ Blocked(last') <=> claimed # {}
            /\ Blocked(last') =>
                 /\ {named[i] : i \in 1..Len(named)} = claimed
                 /\ Len(named) = Cardinality(claimed)

C30_GateIssuesAreExact == [][C30_Steps]_vars

(* a stale event with its title, date, start time and end time all turned   *)
(* down                                                                    *)
C30_Witness ==
    /\ last.op = "execute" /\ Blocked(last)
    /\ Len(last.error) = 6
    /\ last.error[2] = "approval_stale_reapproval_required"
    /\ Has(last.id) /\ approvalActions[last.id].status = "approved"

----------------------------------------------------------------------------
(* C28.  No step changes the payload of an approved action.  So an approved *)
(* action whose payload the gate finds incomplete is rejected by the gate   *)
(* on every execution request, whatever reaffirms came in between, and the  *)
(* only statuses it moves to are failed and cancelled.                      *)

PayloadIssuesClaimed(action) ==
    IssuesClaimed(action) \ {"approval_stale_reapproval_required"}

C28_Steps ==
    \A id \in 1..Len(approvalActions) :
      LET action == approvalActions[id] IN
      (action.status = "approved" /\ PayloadIssuesClaimed(action) # {})
        => /\ approvalActions'[id].payload = action.payload
           /\ approvalActions'[id].status \in {"approved", "failed", "cancelled"}
           /\ (Requested /\ last'.op = "execute" /\ last'.id = id)
                => /\ Blocked(last')
                   /\ PayloadIssuesClaimed(action)
                        \subseteq {last'.error[i] : i \in 2..Len(last'.error)}
                   /\ approvalActions'[id] = action

C28_IncompleteStaysUnexecuted == [][C28_Steps]_vars

(* rejected for its payload alone, on an approval stamped again after a     *)
(* week had passed                                                         *)
C28_Witness ==
    /\ last.op = "execute" /\ Blocked(last)
    /\ \A i \in 1..Len(last.error) :
         last.error[i] # "approval_stale_reapproval_required"
    /\ Has(last.id)
    /\ approvalActions[last.id].status = "approved"
    /\ approvalActions[last.id].updatedAt > StaleAfterDays
    /\ approvalActions[last.id].approvedBy = "reviewer"

----------------------------------------------------------------------------
(* C29.  An execution request for an approved calendar.event.create action  *)
(* that is not stale, has a title and a calendar date, and whose start and  *)
(* end times are written H:MM, an hour of one digit, the end after the      *)
(* start, succeeds: a calendar event is stored and the action is executed.  *)

OneDigitClock(x) ==
    /\ ClockText(x) /\ Len(x.v) = 4
    /\ NumVal(SubSeq(x.v, 3, 4)) <= 59

C29_Steps ==
    (Requested /\ last'.op = "execute" /\ Has(last'.id))
      => LET action == approvalActions[last'.id]
             p == action.payload
         IN (/\ action.status = "approved" /\ Fresh(action)
             /\ action.actionType = "calendar.event.create"
             /\ NonEmptyText(p.eventTitle) /\ CalendarDate(p.startDate)
             /\ OneDigitClock(p.startTime) /\ OneDigitClock(p.endTime)
             /\ MinuteOfDay(p.endTime) > MinuteOfDay(p.startTime))
            => /\ last'.ok
               /\ approvalActions'[last'.id].status = "executed"
               /\ Len(calendarEvents') = Len(calendarEvents) + 1

C29_OneDigitHoursExecute == [][C29_Steps]_vars

----------------------------------------------------------------------------
(* C27.  The action prepared for a draft by createDraftEmail or by          *)
(* createReplyDraftFromThread has a payload with no body.  While it is      *)
(* approved every execution request on it is rejected by the gate with      *)
(* email_body_missing among the issues and leaves it as it was, and         *)
(* approve-send fails before anything is sent, with                         *)
(* invalid_transition:approved->approved once the draft has passed the      *)
(* checks on its own row; so the action is never executed from then on.     *)

C27_Steps ==
    \A d \in 1..Len(draftEmails) :
      LET id == draftEmails[d].approvalActionId
          action == approvalActions[id]
      IN /\ action.payload.body = Undef
         /\ approvalActions'[id].payload.body = Undef
         /\ action.status \in {"approved", "failed", "cancelled"}
              => approvalActions'[id].status # "executed"
         /\ (Requested /\ last'.op = "execute" /\ last'.id = id)
              => /\ ~last'.ok
                 /\ approvalActions'[id] = action
                 /\ action.status = "approved"
                      => /\ Blocked(last')
                         /\ \E i \in 2..Len(last'.error) :
                              last'.error[i] = "email_body_missing"
         /\ (Requested /\ last'.op = "approve_send" /\ last'.id = id
               /\ action.status = "approved")
              => /\ ~last'.ok
                 /\ gmailSends' = gmailSends
                 /\ approvalActions'[id] = action
                 /\ draftEmails'[d] = draftEmails[d]
                 /\ draftEmails[d].accountId # NoRef
                      => last'.error = <<"invalid_transition", "approved", "approved">>

C27_DraftActionsNeverExecuteOnceApproved == [][C27_Steps]_vars

(* approve-send turned down on a reply draft whose action had been approved *)
(* through the transition route and reaffirmed                             *)
C27_Witness ==
    /\ last.op = "approve_send"
    /\ last.error = <<"invalid_transition", "approved", "approved">>
    /\ Has(last.id)
    /\ approvalActions[last.id].status = "approved"
    /\ approvalActions[last.id].approvedBy = "reviewer"
    /\ approvalActions[last.id].payload.body = Undef
    /\ gmailSends = 0
    /\ \E d \in 1..Len(draftEmails) :
         /\ draftEmails[d].approvalActionId = last.id
         /\ draftEmails[d].status = "prepared"

----------------------------------------------------------------------------
(* C25.  With execution requests on the same approved action in flight      *)
(* together, the side-effecting operation of the gate (a local draft       *)
(* stored, a calendar event created) is performed at most once per action,  *)
(* and once every request has been answered an action whose operation was   *)
(* performed is executed.  Calendar events do not name their action, so     *)
(* the operations are counted: never more of them than actions, and, with   *)
(* no request in flight, never more of them than executed actions.          *)

Operations == Len(localDrafts) + Len(calendarEvents)

ExecutedActions ==
    Cardinality({id \in 1..Len(approvalActions) : approvalActions[id].status = "executed"})

----------------------------------------------------------------------------
(* C26.  A run hands its plan to executeToolCalls only when the plan has    *)
(* no email.send, calendar.event.create or delete.resource call.  So the    *)
(* tool calls a run executes itself are calendar.summary, calendar.events   *)
(* and email.draft.generate calls; a run sends no email, materializes no    *)
(* draft, and what it records for an email.send or calendar.event.create    *)
(* call is a prepared approval (or the failure to prepare it), never an     *)
(* execution; and no tool result or log row of a run carries                *)
(* tool_not_implemented.                                                    *)

GuardedTools == {"email.send", "calendar.event.create", "delete.resource"}

DirectTools == {"calendar.summary", "calendar.events", "email.draft.generate"}

(* the trace rows executeToolCalls wrote: prepareApprovalArtifacts traces   *)
(* its calls under the approval_prepare names                              *)
DirectRows(trace) ==
    {i \in 1..Len(trace) :
       /\ trace[i].agent = "tool_executor"
       /\ trace[i].details.tool \in GuardedTools \cup DirectTools}

C26_Steps ==
    Chatted =>
      LET run == last'.value
          calls == run.plan.toolCalls
          results == run.toolResults
          direct == DirectRows(run.trace)
      IN /\ direct # {}
              => /\ \A i \in 1..Len(calls) : calls[i].tool \notin GuardedTools
                 /\ run.firstDecision.status = "proceed"
         /\ \A i \in direct : run.trace[i].details.tool \in DirectTools
         /\ \A i \in 1..Len(results) :
              /\ results[i].error # <<"tool_not_implemented">>
              /\ results[i].tool \in ApprovalTools /\ results[i].ok
                   => /\ results[i].data.kind = "approval"
                      /\ results[i].data.preparedOnly
                      /\ results[i].data.approvalAction.status = "prepared"
         /\ \A i \in 1..Len(run.logs) :
              run.logs[i].errorDetails # "tool_not_implemented"
         /\ gmailSends' = gmailSends
         /\ localDrafts' = localDrafts
         /\ (\A i \in 1..Len(calls) : calls[i].tool \notin {"calendar.summary",
                                                               "calendar.events"})
              => calendarEvents' = calendarEvents
         /\ \A id \in 1..Len(approvalActions') : approvalActions'[id].status # "executed"

C26_RunsExecuteNoGuardedTool == [][C26_Steps]_vars

(* a run that executed two calls itself, a calendar query and a draft *)
C26_Witness ==
    /\ RunDone
    /\ Judgement.status = "proceed"
    /\ Cardinality(DirectRows(last.value.trace)) = 4
    /\ Len(Results) = 2
    /\ Results[1].ok /\ Results[1].tool = "calendar.events"
    /\ Results[2].ok /\ Results[2].tool = "email.draft.generate"

----------------------------------------------------------------------------
(* The Context Builder applied to chat inputs, day after day.  An           *)
(* application is kept in `last` with the application before it.            *)

NoApplication == [input |-> NoRow, context |-> NoRow]

(* buildContextPack(input): the function reads its argument alone and      *)
(* awaits nothing, so the step leaves every table as it is                  *)
BuildContext ==
    \E input \in ContextInputs :
      /\ last' = [op |-> "context", id |-> NoRef, nextStatus |-> "none", ok |-> TRUE,
                  http |-> 200, error |-> NoError,
                  value |-> [input |-> input, context |-> buildContextPack(input),
                             before |-> IF last.op = "context"
                                        THEN [input |-> last.value.input,
                                              context |-> last.value.context]
                                        ELSE NoApplication]]
      /\ UNCHANGED <<approvalActions, auditLogs, calendars, calendarEvents,
                     draftEmails, localDrafts, gmailSends, clock, phase, inflight, oauth>>

ContextNext == BuildContext \/ Tick

ContextSpec == Init /\ [][ContextNext]_vars

----------------------------------------------------------------------------
(* C24.  buildContextPack is a function of its input: applied twice to the  *)
(* same input, at whatever times, it returns the same pack.  It always      *)
(* returns a pack, all six fields present, whose intentGuess is             *)
(* general_chat when the latest message has none of the keywords, and it    *)
(* changes nothing stored.                                                  *)

Keywords == CalendarWords \cup DraftWords \cup SendWords \cup CreateWords \cup DeleteWords

PackFields == {"intentGuess", "conversationSummary", "toolContext", "constraints",
               "userPrefs", "latestUserMessage"}

Intents == {"calendar_query", "email_draft", "email_send", "calendar_create",
            "delete_action", "general_chat"}

----------------------------------------------------------------------------
(* The chat route where the plan is the heuristic one: deep mode with a     *)
(* planner that fails in each of its ways, and quick mode with the          *)
(* completion service down or ready with a plan.                            *)

ChatInputs ==
    {[messages |-> m, mode |-> mode, channel |-> NULL, tools |-> Undef,
      attachments |-> Undef, userPrefs |-> Undef] :
       m \in Conversations, mode \in {"quick", "deep"}}

HeuristicChats ==
    {Chat(input, reply) : input \in {i \in ChatInputs : i.mode = "deep"},
                          reply \in FailedReplies}
    \cup {Chat(input, reply) : input \in {i \in ChatInputs : i.mode = "quick"},
                               reply \in {NoReply, SummaryReply}}

HeuristicChatRoute == ChatRequest(HeuristicChats, {"none"})

PlannerNext ==
    \/ HeuristicChatRoute
    \/ PrepareRoute
    \/ GenerateDraftRoute

PlannerSpec == Init /\ [][PlannerNext]_vars

----------------------------------------------------------------------------
(* The chat route over a store that may fail once: an insert into           *)
(* agent_traces throws, either the first of the run (the run/prepared       *)
(* record) or the last (the run/executed record).  Every other statement    *)
(* of the run, the catch block included, goes through.                      *)

Faults == {"none", "run_prepared_trace", "run_executed_trace"}

FaultChats == {Chat(input, NoReply) : input \in ChatInputs}

FaultyChatRoute == ChatRequest(FaultChats, Faults)

FaultNext ==
    \/ FaultyChatRoute
    \/ PrepareRoute
    \/ GenerateDraftRoute

FaultSpec == Init /\ [][FaultNext]_vars

(* the statuses the orchestration_runs row of the last run was given *)
Written == last.value.run.written

TerminalWrites == {i \in 1..Len(Written) : Written[i] \in {"executed", "failed"}}

(* C22: a run is created with status prepared and is given a terminal       *)
(* status, executed or failed, once: a run marked executed is not marked    *)
(* failed afterwards, also when a step after the status update fails (the   *)
(* last run trace write), and a failed run is not marked executed.          *)
C22_TerminalStatusSetOnce ==
    last.op = "chat" =>
      /\ Written[1] = "prepared"
      /\ \A i \in 2..Len(Written) : Written[i] # "prepared"
      /\ Cardinality(TerminalWrites) <= 1
      /\ last.value.trace # <<>> => Cardinality(TerminalWrites) = 1

(* C23: an exception thrown anywhere in the pipeline after the run record   *)
(* was created marks the run failed with the error text, appends a          *)
(* run/failed trace and is thrown on to the caller; no run is left in       *)
(* status prepared once runMultiAgentOrchestration has returned or thrown.  *)
C23_ThrownRunsAreMarkedFailed ==
    last.op = "chat" =>
      LET run == last.value.run
          trace == last.value.trace
      IN /\ run.status # "prepared"
         /\ ~last.ok =>
              /\ last.http = 502
              /\ run.status = "failed"
              /\ run.errorDetails = MessageOf(last.error)
              /\ trace # <<>>
              /\ trace[Len(trace)].agent = "run"
              /\ trace[Len(trace)].status = "failed"
              /\ trace[Len(trace)].errorDetails = MessageOf(last.error)

(* C21: the planner is asked for a plan only in deep mode; when its         *)
(* completion call fails, or the answer holds no JSON object, or the JSON   *)
(* does not pass the schema, the run uses the heuristic plan without a      *)
(* word and completes without a run-level error; in quick mode the plan is  *)
(* always the heuristic one.                                                *)
C21_PlannerFallsBackWithoutRunError ==
    last.op = "chat" =>
      LET run == last.value
          heuristic == planFromContext(buildContextPack(run.input))
      IN /\ run.plannerAsked <=> run.input.mode = "deep"
         /\ run.input.mode = "quick" =>
              run.plan = heuristic /\ run.plannerSource = "heuristic"
         /\ run.input.mode = "deep" /\ run.completion # "plan" =>
              /\ run.plan = heuristic
              /\ run.plannerSource = "heuristic_fallback"
              /\ last.ok
              /\ run.run.status = "executed"
              /\ run.run.errorDetails = NULL

----------------------------------------------------------------------------
(* C31: executeApprovedAction on an approved action that is not stale and   *)
(* whose actionType is neither email.send nor calendar.event.create fails   *)
(* with unsupported_action_execution:<actionType>, has no side effect and   *)
(* leaves the action approved; an action_execute_begin audit row is written *)
(* for it and no action_execute_complete row.                               *)

SupportedTypes == {"email.send", "calendar.event.create"}

C31_Steps ==
    (/\ Requested /\ last'.op = "execute" /\ Has(last'.id)
     /\ approvalActions[last'.id].status = "approved"
     /\ approvalActions[last'.id].actionType \notin SupportedTypes
     /\ ~IsStale(approvalActions[last'.id], clock))
      => /\ ~last'.ok
         /\ last'.error = <<"unsupported_action_execution",
                            approvalActions[last'.id].actionType>>
         /\ approvalActions' = approvalActions
         /\ UNCHANGED <<calendars, calendarEvents, localDrafts, draftEmails, gmailSends>>
         /\ AuditTypes(auditLogs') = <<"action_execute_begin">>
         /\ auditLogs'[1].targetRef = last'.id
         /\ auditLogs'[1].details.actionType = approvalActions[last'.id].actionType

C31_UnsupportedTypeIsRefused == [][C31_Steps]_vars

C31_Witness ==
    /\ last.op = "execute" /\ ~last.ok
    /\ last.error = <<"unsupported_action_execution", "note.archive">>
    /\ Has(last.id) /\ approvalActions[last.id].status = "approved"
    /\ AuditTypes(auditLogs) = <<"action_execute_begin">>

----------------------------------------------------------------------------
(* the judge_decisions rows of the last run, oldest first *)
Decisions == last.value.decisions

(* a run that returned to the route: its status is executed *)
Completed == last.op = "chat" /\ last.ok

(* C32: every completed run has stored two judge decisions, the first       *)
(* tagged pre_tool and holding the pre-tool decision, the second tagged     *)
(* post_tool and holding the final decision, each by an insert of its own;  *)
(* a stored decision is not changed afterwards (the first row still holds   *)
(* the pre-tool decision when the final one differs).                       *)
C32_TwoDecisionsPerRun ==
    Completed =>
      /\ Len(Decisions) = 2
      /\ Decisions[1] = [stage |-> "pre_tool", decision |-> Judgement]
      /\ Decisions[2] = [stage |-> "post_tool", decision |-> Final]

----------------------------------------------------------------------------
(* the agent_traces rows of the last run, oldest first *)
Trace == last.value.trace

(* the agents of the rows of a trace, in order *)
Agents(trace) == [i \in 1..Len(trace) |-> trace[i].agent]

(* n rows of the Tool Executor *)
ExecutorRows(n) == [i \in 1..n |-> "tool_executor"]

(* the row of the Judge's second decision: there is one when the status of  *)
(* the final decision is not that of the pre-tool decision                  *)
SecondJudgeRow == IF Final.status # Judgement.status THEN <<"judge">> ELSE <<>>

(* the first row is run/prepared and the last run/executed *)
RunRowsFrame ==
    /\ Trace[1].status = "prepared"
    /\ Trace[Len(Trace)].status = "executed"
    /\ \A i \in 2..(Len(Trace) - 1) :
         Trace[i].agent # "tool_executor" => Trace[i].status = "executed"

(* C33 as stated: the trace of a completed run is run(prepared), reader,    *)
(* thinker, judge, the tool_executor rows, responder, run(executed)         *)
C33_Original ==
    Completed =>
      /\ Agents(Trace) = <<"run", "reader", "thinker", "judge">>
                           \o ExecutorRows(2 * Len(Results))
                           \o <<"responder", "run">>
      /\ RunRowsFrame

(* C33: the trace of a completed run is, in this order, run(prepared),      *)
(* reader, thinker, judge, two tool_executor rows for every tool call or    *)
(* approval preparation that ran, then a second judge row exactly when the  *)
(* final decision's status differs from the pre-tool one, then responder,   *)
(* then run(executed); no row of a stage precedes a row of an earlier       *)
(* stage and every stage that ran has its row.                              *)
C33_TraceInPipelineOrder ==
    Completed =>
      /\ Agents(Trace) = <<"run", "reader", "thinker", "judge">>
                           \o ExecutorRows(2 * Len(Results))
                           \o SecondJudgeRow
                           \o <<"responder", "run">>
      /\ RunRowsFrame

(* a completed run whose two tool calls ran and whose final decision was    *)
(* escalated: eleven rows, the ninth the second judge row                   *)
C33_Witness ==
    /\ Completed
    /\ Len(Results) = 2
    /\ Final.status # Judgement.status
    /\ Len(Trace) = 11
    /\ Trace[9].agent = "judge"
    /\ Trace[10].agent = "responder"

----------------------------------------------------------------------------
(* the tool_execution_logs rows of the last run, oldest first *)
Logs == last.value.logs

(* the rows of the Tool Executor in the trace of the last run *)
ExecutorTrace == SelectSeq(Trace, LAMBDA row : row.agent = "tool_executor")

(* the tool calls the Tool Executor handles: the plan under proceed, the    *)
(* email.send and calendar.event.create calls under requires_approval       *)
Handled ==
    IF Judgement.status = "proceed" THEN Plan
    ELSE IF Judgement.status = "requires_approval" THEN SelectSeq(Plan, IsApprovalCall)
    ELSE <<>>

Outcome(result) == IF result.ok THEN "executed" ELSE "failed"

(* C34: for every tool call the Tool Executor handles, directly or by       *)
(* preparing an approval, a prepared trace row and a prepared log row are   *)
(* written before the tool or prepareAction is called (the log row holds no *)
(* result yet), and one trace row and one log row after it, failed exactly  *)
(* when the result of the call has ok = FALSE and executed otherwise; the   *)
(* rows of one call come before the prepared rows of the next call.         *)
C34_ToolCallsAreBracketed ==
    Judged =>
      /\ Len(Results) = Len(Handled)
      /\ Len(ExecutorTrace) = 2 * Len(Handled)
      /\ Len(Logs) = 2 * Len(Handled)
      /\ \A k \in 1..Len(Handled) :
           /\ Results[k].toolCallId = Handled[k].id
           /\ ExecutorTrace[2 * k - 1].status = "prepared"
           /\ ExecutorTrace[2 * k - 1].details.toolCallId = Handled[k].id
           /\ Logs[2 * k - 1].status = "prepared"
           /\ Logs[2 * k - 1].toolCallId = Handled[k].id
           /\ Logs[2 * k - 1].result = NoResult
           /\ ExecutorTrace[2 * k].status = Outcome(Results[k])
           /\ ExecutorTrace[2 * k].details.toolCallId = Handled[k].id
           /\ Logs[2 * k].status = Outcome(Results[k])
           /\ Logs[2 * k].toolCallId = Handled[k].id
           /\ Logs[2 * k].result = Results[k]

(* a run that executed two calls, the first failing and the second not *)
C34_Witness ==
    /\ Judged
    /\ Len(Handled) = 2
    /\ ~Results[1].ok /\ Results[2].ok
    /\ ExecutorTrace[2].status = "failed" /\ ExecutorTrace[4].status = "executed"
    /\ Logs[2].status = "failed" /\ Logs[4].status = "executed"

----------------------------------------------------------------------------
(* C35: a failure of the completion service does not fail a run.  In the    *)
(* Planner it counts as no plan and the heuristic plan is used; in the      *)
(* Responder it counts as no text.  With the store sound, every run thus    *)
(* completes with status executed and the request is answered with a        *)
(* response, whether or not the completion service is up.                   *)
C35_CompletionFailureIsNotFatal ==
    last.op = "chat" =>
      LET run == last.value IN
      /\ run.plannerAsked /\ run.completion = "none" =>
           run.plan = planFromContext(buildContextPack(run.input))
      /\ last.ok
      /\ last.http = 200
      /\ last.error # <<"ollama_http_500">>
      /\ run.run.status = "executed"

----------------------------------------------------------------------------
(* the response of a call of approveAndSendDraftEmail that reached the      *)
(* Gmail send: the send was accepted, or it failed                          *)
SendAttempted(response) ==
    response.ok \/ response.error = <<"gmail_send_http_500">>

(* C36: requests handled one after the other, approve-send tries the Gmail  *)
(* send of a draft at most once.  The send is tried only by a call that     *)
(* found the draft's action prepared and moved it to approved; when the     *)
(* send is accepted the action becomes executed and the draft sent, when it *)
(* fails the action becomes failed and the draft failed; a call that finds  *)
(* the action in any other status, as every call after the first send       *)
(* does, is turned down by the state machine and nothing is sent or        *)
(* changed.                                                                 *)
C36_Steps ==
    \A d \in 1..Len(draftEmails) :
      LET draft == draftEmails[d]
          id == draft.approvalActionId
          action == approvalActions[id]
      IN /\ draft.status \in {"sent", "failed"} => action.status \in {"executed", "failed"}
         /\ (Requested /\ last'.op = "approve_send" /\ last'.id = id)
              => IF action.status = "prepared" /\ draft.accountId # NoRef
                 THEN /\ SendAttempted(last')
                      /\ draft.status \notin {"sent", "failed"}
                      /\ approvalActions'[id].approvedBy # NULL
                      /\ IF last'.ok
                         THEN /\ approvalActions'[id].status = "executed"
                              /\ draftEmails'[d].status = "sent"
                              /\ gmailSends' = gmailSends + 1
                         ELSE /\ approvalActions'[id].status = "failed"
                              /\ draftEmails'[d].status = "failed"
                              /\ gmailSends' = gmailSends
                 ELSE /\ ~SendAttempted(last')
                      /\ gmailSends' = gmailSends
                      /\ approvalActions'[id] = action
                      /\ draftEmails'[d] = draft
                      /\ draft.accountId # NoRef =>
                           last'.error \in {<<"invalid_transition", action.status, "approved">>,
                                            <<"action_terminal">>}

C36_SendAttemptedOncePerDraft == [][C36_Steps]_vars

(* a second approve-send on a draft whose send had failed *)
C36_Witness ==
    /\ last.op = "approve_send" /\ ~last.ok
    /\ ~SendAttempted(last)
    /\ \E d \in 1..Len(draftEmails) :
         /\ draftEmails[d].approvalActionId = last.id
         /\ draftEmails[d].status = "failed"
         /\ draftEmails[d].errorDetails = "gmail_send_http_500"
         /\ approvalActions[last.id].status = "failed"
    /\ gmailSends = 0

----------------------------------------------------------------------------
(* buildContextPack on messages that carry the keywords of one intent or of *)
(* two, in either order                                                     *)

(* one phrase for each intent of the classification, and a word of none *)
Phrases ==
    { <<"a", "g", "e", "n", "d", "a">>,
      <<"D", "r", "a", "f", "t", " ", "e", "m", "a", "i", "l">>,
      <<"s", "e", "n", "d", " ", "e", "m", "a", "i", "l">>,
      <<"c", "r", "e", "a", "t", "e", " ", "e", "v", "e", "n", "t">>,
      <<"S", "c", "h", "e", "d", "u", "l", "e", " ", "m", "e", "e", "t", "i", "n", "g">>,
      <<"c", "a", "n", "c", "e", "l">>,
      <<"h", "e", "l", "l", "o">> }

(* the texts of one phrase and of two phrases with a space between *)
KeywordTexts ==
    Phrases \cup {pq[1] \o <<" ">> \o pq[2] : pq \in {x \in Phrases \X Phrases : x[1] # x[2]}}

KeywordInputs ==
    {[messages |-> <<Msg("user", text)>>, mode |-> mode, channel |-> NULL,
      tools |-> Undef, attachments |-> Undef, userPrefs |-> Undef] :
       text \in KeywordTexts, mode \in {"quick", "deep"}}

(* buildContextPack(input) for a message of KeywordInputs *)
ClassifyMessage ==
    \E input \in KeywordInputs :
      /\ last' = [op |-> "context", id |-> NoRef, nextStatus |-> "none", ok |-> TRUE,
                  http |-> 200, error |-> NoError,
                  value |-> [input |-> input, context |-> buildContextPack(input),
                             before |-> NoApplication]]
      /\ UNCHANGED <<approvalActions, auditLogs, calendars, calendarEvents,
                     draftEmails, localDrafts, gmailSends, clock, phase, inflight, oauth>>

IntentNext == ClassifyMessage \/ Tick

IntentSpec == Init /\ [][IntentNext]_vars

(* the intents that have keywords, in the order of the classification *)
IntentOrder == <<"calendar_query", "email_draft", "email_send", "calendar_create",
                 "delete_action">>

WordsOf(intent) ==
    CASE intent = "calendar_query" -> CalendarWords
      [] intent = "email_draft" -> DraftWords
      [] intent = "email_send" -> SendWords
      [] intent = "calendar_create" -> CreateWords
      [] intent = "delete_action" -> DeleteWords

(* the places in IntentOrder of the intents a text has a keyword of *)
Matching(lc) == {k \in 1..Len(IntentOrder) : IncludesAny(lc, WordsOf(IntentOrder[k]))}

(* C37: buildContextPack gives a message the first intent, in the order     *)
(* calendar_query, email_draft, email_send, calendar_create, delete_action, *)
(* of which the lower-cased latest user message has a keyword, and          *)
(* general_chat when it has a keyword of none; so a message with `schedule  *)
(* meeting` is a calendar_query, `schedule` being a calendar keyword.       *)
C37_IntentIsFirstMatch ==
    last.op = "context" =>
      LET lc == toLowerCase(latestUserMessage(last.value.input.messages))
          intent == last.value.context.intentGuess
      IN /\ Matching(lc) = {} => intent = "general_chat"
         /\ \A k \in Matching(lc) :
              (\A j \in Matching(lc) : k <= j) => intent = IntentOrder[k]
         /\ Includes(lc, <<"s", "c", "h", "e", "d", "u", "l", "e", " ", "m", "e", "e", "t", "i", "n", "g">>)
              => intent = "calendar_query"

(* `cancel Schedule meeting`: keywords of delete_action, calendar_create    *)
(* and calendar_query, classified calendar_query                            *)
C37_Witness ==
    /\ last.op = "context"
    /\ last.value.context.latestUserMessage
         = <<"c", "a", "n", "c", "e", "l", " ", "S", "c", "h", "e", "d", "u", "l", "e", " ", "m", "e", "e", "t", "i", "n", "g">>
    /\ Matching(toLowerCase(last.value.context.latestUserMessage)) = {1, 4, 5}
    /\ last.value.context.intentGuess = "calendar_query"

----------------------------------------------------------------------------
(* The Google API wrappers: gmailSendRawWithRefresh, gmailFetchJsonWithRefresh *)
(* and googleFetchJsonWithRefresh.  A call is computed from what the world  *)
(* answers: the token getValidGoogleAccessToken comes back with, the        *)
(* response to the first request, the outcome of the forced refresh and the *)
(* response to the second request.  The result keeps the requests made      *)
(* (the token each carried) and the number of forced refreshes.             *)

Wrappers == {"gmailSendRaw", "gmailFetchJson", "googleFetchJson"}

(* the head of the error a request throws on a response that is not ok *)
HttpError(wrapper) ==
    CASE wrapper = "gmailSendRaw" -> "gmail_send_http"
      [] wrapper = "gmailFetchJson" -> "gmail_http"
      [] wrapper = "googleFetchJson" -> "google_calendar_http"

(* what fetch comes back with: no response at all (status "none"), or a     *)
(* response with a status and a body that is JSON or is not                 *)
Responses ==
    [status : {"200", "401", "500"}, json : BOOLEAN]
      \cup {[status |-> "none", json |-> FALSE]}

(* gmailSendRaw, gmailFetchJson, googleFetchJson: NoError when the request  *)
(* returns, the error thrown otherwise.  gmailSendRaw parses the body       *)
(* before it looks at the status, googleFetchJson parses it only when the   *)
(* status is ok, gmailFetchJson keeps a body that does not parse as text    *)
ApiRequest(wrapper, response) ==
    IF response.status = "none" THEN <<"fetch failed">>
    ELSE IF wrapper = "gmailSendRaw"
    THEN (IF ~response.json THEN <<"SyntaxError">>
          ELSE IF response.status # "200" THEN Err(HttpError(wrapper), <<response.status>>)
          ELSE NoError)
    ELSE IF wrapper = "gmailFetchJson"
    THEN (IF response.status # "200" THEN Err(HttpError(wrapper), <<response.status>>)
          ELSE NoError)
    ELSE (IF response.status # "200" THEN Err(HttpError(wrapper), <<response.status>>)
          ELSE IF ~response.json THEN <<"SyntaxError">>
          ELSE NoError)

(* the test of the catch block on every failure of a request *)
isUnauthorized_AnyStatus(wrapper, error) ==
    Len(error) = 2 /\ error[1] = HttpError(wrapper)

(* isUnauthorized, isUnauthorizedGoogleError and the startsWith test of     *)
(* gmailSendRawWithRefresh                                                  *)
isUnauthorized(wrapper, error) ==
    Len(error) = 2 /\ error[1] = HttpError(wrapper) /\ error[2] = "401"

(* getValidGoogleAccessToken as the wrapper sees it: the stored token, a    *)
(* token refreshed because the stored one was about to expire, or an error  *)
TokenAnswers ==
    { [token |-> "stored", error |-> NoError],
      [token |-> "refreshed", error |-> NoError],
      [token |-> "none", error |-> <<"google_token_bundle_missing">>],
      [token |-> "none", error |-> <<"google_refresh_token_missing">>] }

(* forceRefreshGoogleAccessToken: a new token, or an error *)
RefreshAnswers ==
    { [token |-> "forced", error |-> NoError],
      [token |-> "none", error |-> <<"google_refresh_token_missing">>],
      [token |-> "none", error |-> <<"google_refresh_token_exchange_failed">>] }

Worlds == [token : TokenAnswers, first : Responses, refresh : RefreshAnswers,
           second : Responses]

WrapperCall(wrapper, world, error, requests, forced) ==
    [wrapper |-> wrapper, world |-> world, error |-> error,
     requests |-> requests, forced |-> forced]

(* gmailSendRawWithRefresh, gmailFetchJsonWithRefresh,                      *)
(* googleFetchJsonWithRefresh                                               *)
WithRefresh(wrapper, world) ==
    IF world.token.error # NoError
    THEN WrapperCall(wrapper, world, world.token.error, <<>>, 0)
    ELSE
      LET accessToken == world.token.token
          first == ApiRequest(wrapper, world.first)
      IN
      IF first = NoError THEN WrapperCall(wrapper, world, NoError, <<accessToken>>, 0)
      ELSE IF ~isUnauthorized(wrapper, first)
      THEN WrapperCall(wrapper, world, first, <<accessToken>>, 0)
      ELSE IF world.refresh.error # NoError
      THEN WrapperCall(wrapper, world, world.refresh.error, <<accessToken>>, 1)
      ELSE WrapperCall(wrapper, world, ApiRequest(wrapper, world.second),
                       <<accessToken, world.refresh.token>>, 1)

(* a call of one of the wrappers, from listGmailThreads, the calendar sync  *)
(* or approveAndSendDraftEmail                                              *)
GoogleCall ==
    \E wrapper \in Wrappers, world \in Worlds :
      LET call == WithRefresh(wrapper, world) IN
      /\ last' = [op |-> "google_call", id |-> NoRef, nextStatus |-> "none",
                  ok |-> call.error = NoError,
                  http |-> IF call.error = NoError THEN 200 ELSE 400,
                  error |-> call.error, value |-> call]
      /\ UNCHANGED <<approvalActions, auditLogs, calendars, calendarEvents,
                     draftEmails, localDrafts, gmailSends, clock, phase, inflight, oauth>>

GoogleNext == GoogleCall

GoogleSpec == Init /\ [][GoogleNext]_vars

(* C38: a Google API wrapper (Gmail send, Gmail fetch, Calendar fetch)      *)
(* makes one request with the token at hand; only when that request fails   *)
(* with HTTP 401 does it force a token refresh, and then it makes one more  *)
(* request with the new token.  Any other failure of the first request, a   *)
(* failure of the refresh and a failure of the second request are thrown    *)
(* on as they are: a call makes at most two requests and at most one        *)
(* forced refresh.                                                          *)
C38_OneRetryAfterUnauthorized ==
    last.op = "google_call" =>
      LET call == last.value
          world == call.world
          first == ApiRequest(call.wrapper, world.first)
      IN /\ Len(call.requests) <= 2
         /\ call.forced <= 1
         /\ world.token.error # NoError =>
              call.requests = <<>> /\ call.forced = 0 /\ call.error = world.token.error
         /\ world.token.error = NoError =>
              /\ Len(call.requests) >= 1
              /\ call.requests[1] = world.token.token
              /\ call.forced = 1 => world.first.status = "401"
              /\ (world.first.status = "401"
                    /\ (call.wrapper = "gmailSendRaw" => world.first.json))
                   => call.forced = 1
              /\ call.forced = 0 => Len(call.requests) = 1 /\ call.error = first
              /\ call.forced = 1 /\ world.refresh.error # NoError =>
                   Len(call.requests) = 1 /\ call.error = world.refresh.error
              /\ call.forced = 1 /\ world.refresh.error = NoError =>
                   /\ call.requests = <<world.token.token, world.refresh.token>>
                   /\ call.error = ApiRequest(call.wrapper, world.second)

(* a Gmail fetch answered 401 twice: two requests, the second with the      *)
(* token of the forced refresh, and the second 401 thrown on                *)
C38_Witness ==
    /\ last.op = "google_call"
    /\ last.value.wrapper = "gmailFetchJson"
    /\ last.value.requests = <<"stored", "forced">>
    /\ last.value.forced = 1
    /\ last.error = <<"gmail_http", "401">>

----------------------------------------------------------------------------
(* The Google OAuth sessions of tokenStore.ts.  oauth.pendingPkce is the    *)
(* map pendingPkce, from state to session; states are random strings and    *)
(* stand here as 1, 2, ... in the order they are issued (oauth.issued is    *)
(* how many were); oauth.exchanges lists the states completeGoogleOAuth     *)
(* went to the token endpoint for, oldest first.  In this specification     *)
(* the clock counts minutes.                                               *)

MaxStates == 2

MaxMinutes == 22

(* SESSION_TTL_MS, in minutes *)
SessionTtl == 10

(* cleanup, keeping every session however old *)
cleanup_KeepsAll(pending, now) == pending

(* cleanup *)
cleanup(pending, now) ==
    [s \in {t \in DOMAIN pending : ~(now - pending[t].createdAt > SessionTtl)} |-> pending[s]]

(* pendingPkce.delete(state) *)
Deleted(pending, state) == [s \in DOMAIN pending \ {state} |-> pending[s]]

(* startGoogleOAuth, with the client id configured: the state issued is     *)
(* the value                                                               *)
startGoogleOAuth(o, db, now) ==
    LET state == o.issued + 1
        session == [state |-> state, createdAt |-> now]
    IN [ok |-> TRUE, error |-> NoError,
        db |-> writeAuditLog(db, "google_oauth_start", "oauth_session", state,
                             "prepared", NoDetails, NULL),
        value |-> [state |-> state],
        oauth |-> [o EXCEPT !.pendingPkce = cleanup(@, now) @@ (state :> session),
                            !.issued = state]]

(* completeGoogleOAuth; tokenOk: the token endpoint accepts the code *)
completeGoogleOAuth(o, db, now, input, tokenOk) ==
    LET pending == cleanup(o.pendingPkce, now) IN
    IF input.state \notin DOMAIN pending
    THEN [ok |-> FALSE, error |-> <<"oauth_state_not_found_or_expired">>, db |-> db,
          value |-> NoRow, oauth |-> [o EXCEPT !.pendingPkce = pending]]
    ELSE
      LET exchanged == [o EXCEPT !.pendingPkce = Deleted(pending, input.state),
                                 !.exchanges = Append(@, input.state)]
      IN IF ~tokenOk
         THEN [ok |-> FALSE, error |-> <<"google_token_exchange_failed">>,
               db |-> writeAuditLog(db, "google_oauth_complete", "oauth_session",
                                    input.state, "failed", NoDetails,
                                    "token_exchange_failed"),
               value |-> NoRow, oauth |-> exchanged]
         ELSE [ok |-> TRUE, error |-> NoError,
               db |-> writeAuditLog(db, "google_oauth_complete", "oauth_session",
                                    input.state, "approved", NoDetails, NULL),
               value |-> [state |-> input.state], oauth |-> exchanged]

(* POST /api/accounts/google/oauth/start *)
StartOAuthRoute ==
    /\ oauth.issued < MaxStates
    /\ LET r == startGoogleOAuth(oauth, Db, clock)
       IN /\ Tables(r.db)
          /\ oauth' = r.oauth
          /\ Respond("oauth_start", r.value.state, "none", r, 200, 400)
    /\ UNCHANGED <<clock, phase, inflight>>

(* POST /api/accounts/google/oauth/complete, up to the return of            *)
(* completeGoogleOAuth                                                      *)
CompleteOAuthRoute ==
    \E state \in 1..(MaxStates + 1), tokenOk \in BOOLEAN :
      /\ LET r == completeGoogleOAuth(oauth, Db, clock, [state |-> state], tokenOk)
         IN /\ Tables(r.db)
            /\ oauth' = r.oauth
            /\ Respond("oauth_complete", state, "none", r, 200, 400)
      /\ UNCHANGED <<clock, phase, inflight>>

(* five or six minutes pass *)
Minutes ==
    \E d \in {5, 6} :
      /\ clock + d <= MaxMinutes
      /\ clock' = clock + d
      /\ UNCHANGED <<approvalActions, auditLogs, calendars, calendarEvents,
                     draftEmails, localDrafts, gmailSends, last, phase, inflight, oauth>>

OAuthNext ==
    \/ StartOAuthRoute
    \/ CompleteOAuthRoute
    \/ Minutes

OAuthSpec == Init /\ [][OAuthNext]_vars

(* the states completeGoogleOAuth went to the token endpoint for were       *)
(* issued, and none is there twice                                          *)
C39_Exchanges ==
    /\ \A i \in 1..Len(oauth.exchanges) : oauth.exchanges[i] \in 1..oauth.issued
    /\ \A i, j \in 1..Len(oauth.exchanges) :
         oauth.exchanges[i] = oauth.exchanges[j] => i = j

(* the session of a state is there and is no older than ten minutes *)
Usable(state) ==
    /\ state \in DOMAIN oauth.pendingPkce
    /\ clock - oauth.pendingPkce[state].createdAt <= SessionTtl

C39_Steps ==
    (Requested /\ last'.op = "oauth_complete") =>
      IF Usable(last'.id)
      THEN /\ oauth'.exchanges = Append(oauth.exchanges, last'.id)
           /\ last'.id \notin DOMAIN oauth'.pendingPkce
           /\ last'.ok \/ last'.error = <<"google_token_exchange_failed">>
      ELSE /\ ~last'.ok
           /\ last'.error = <<"oauth_state_not_found_or_expired">>
           /\ oauth'.exchanges = oauth.exchanges
           /\ auditLogs' = <<>>

(* C39: an OAuth state is good for one completion and for ten minutes.      *)
(* completeGoogleOAuth goes to the token exchange at most once for a state  *)
(* startGoogleOAuth issued: it removes the pending session before the       *)
(* exchange, whether the exchange then succeeds or fails.  A state that was *)
(* never issued, was used already or was issued more than 10 minutes ago is *)
(* rejected with oauth_state_not_found_or_expired.                          *)
C39_StateIsSingleUseAndExpires == [](C39_Exchanges) /\ [][C39_Steps]_vars

(* a second completion of a state whose first exchange had failed, within   *)
(* the ten minutes, rejected                                                *)
C39_Witness ==
    /\ last.op = "oauth_complete"
    /\ last.error = <<"oauth_state_not_found_or_expired">>
    /\ oauth.exchanges = <<last.id>>
    /\ clock = 0

====
